---- MODULE Spec2Model ----
(***************************************************************************)
(* Model of the distributed commit and cluster-membership core of the      *)
(* multimaster extension (multimaster.c, pglogical_apply.c).  The model    *)
(* describes ONE node (MtmNodeId) and its shared segment Mtm; the other    *)
(* nodes appear as the inputs of the handlers they trigger.                *)
(***************************************************************************)
EXTENDS Integers, Sequences, FiniteSets, TLC

\* ------------------------------------------------------------------ bounds
MaxTime == 3          \* wall clock readings are 0..MaxTime
MaxCsn == 6           \* a new call of assign-csn / sync starts only below this
MaxConfigChanges == 4 \* membership handlers run only while nConfigChanges is below this
MaxXid == 2           \* local transaction ids are 1..MaxXid
MaxLeaps == 6         \* the wall clock leaps forward while it is below this many leaps

\* ------------------------------------------------------------ configuration
MtmNodes == 3         \* number of connection strings: Mtm->nAllNodes
MtmNodeId == 1        \* this node
Nodes == 1..MtmNodes
Others == Nodes \ {MtmNodeId}
Xids == 1..MaxXid
InvalidTransactionId == 0
INVALID_CSN == -1
Majority(M) == M.nAllNodes \div 2 + 1
MtmUseRaftable == TRUE    \* multimaster.use_raftable, boot value
MtmUseDtm == TRUE         \* multimaster.use_dtm, boot value

VARIABLES
    Mtm,        \* the shared segment (MtmState) of this node
    sysTime,    \* what gettimeofday() returns now
    clk,        \* the process running MtmSyncClock, with the history of MtmAssignCSN
    MtmIsRecoverySession,  \* per wal-sender (by the node it serves): in a recovery session
    last,       \* history: the handler that ran last, and the node it ran for
    MtmTx,      \* per process: its static MtmTx (MtmCurrentTrans)
    pc,         \* per process: where it stands in its transaction
    twophase,   \* per gid: the state of the engine's prepared transaction
    voteWait,   \* per process: start and transTimeout of MtmPostPrepareTransaction
    XactIsoLevel,  \* the isolation level of the backend's transaction
    MtmStateLock,  \* per process: the mode in which it holds the state lock (MTM_STATE_LOCK_ID)
    nodeCall,   \* the backend that runs mtm.drop_node or mtm.recover_node: its stand in the call
    gc,         \* a call of the garbage collection: its inputs and what it removed
    sub,        \* a transaction with sub-transactions: the list of states and its stand
    dl,         \* a call of the global deadlock detector: the graphs it reads and its answer
    cfg,        \* the start of the extension: the settings it is given and what came of it
    nConfigChanges,  \* per process: the local nConfigChanges of MtmPostPrepareTransaction
    vis,        \* the backend inside MtmXidInMVCCSnapshot: loop counter, delay, answer
    receiver    \* per peer: its receiver's stand in MtmGetReplicationMode and the mode it got

clockVars == <<sysTime, clk>>
memberVars == <<MtmIsRecoverySession, last>>
txVars == <<MtmTx, pc, twophase, nConfigChanges, vis, receiver, voteWait, XactIsoLevel, MtmStateLock, nodeCall, gc, sub, dl, cfg>>
vars == <<Mtm, sysTime, clk, MtmIsRecoverySession, last, MtmTx, pc, twophase, nConfigChanges, vis,
          receiver, voteWait, XactIsoLevel, MtmStateLock, nodeCall, gc, sub, dl, cfg>>

Max(a, b) == IF a >= b THEN a ELSE b

\* The processes that take the state lock one step at a time: the backends
\* and the applier, the backend that runs mtm.drop_node or mtm.recover_node,
\* and the backend that serves the connection MtmBroadcastUtilityStmt opens
\* to this node.
LockUsers == {"B", "W", "admin", "conn"}

\* No call of the garbage collection has been made.
NoGc == [kind |-> "none", list |-> <<>>, xid |-> 0, oldest |-> <<>>, disabled |-> {},
         now |-> 0, removed |-> {}, cutoff |-> 0, ran |-> FALSE]

\* Neither MtmDropNode nor MtmRecoverNode is running.
NoNodeCall == [fn |-> "none", pc |-> "idle", nodeId |-> 0, io |-> "none", err |-> "none"]

\* No transaction with sub-transactions is followed.
NoSub == [pc |-> "none", k |-> 0, nSubxids |-> 0, isEnqueued |-> FALSE, list |-> <<>>]

\* No backend is in the global deadlock detector.
NoDl == [pc |-> "none", own |-> {}, peer |-> <<>>, nAllNodes |-> 0, disabledNodeMask |-> {},
         lastPeekTime |-> 0, now |-> 0, answer |-> FALSE]

\* No postmaster is starting.
NoCfg == [pc |-> "none", settings |-> <<>>, MtmMaxNodes |-> 0, MtmNodes |-> 0]

MSEC_TO_USEC(m) == m * 1000

\* ------------------------------------------------------------ logical clock
\* MtmGetCurrentTime: system time plus the accumulated shift.
MtmGetCurrentTime(M, sys) == sys + M.timeShift

\* A slip of MtmAssignCSN: the reading of the clock is returned as it is.
MtmAssignCSN_wall(M, sys) == [M EXCEPT !.csn = MtmGetCurrentTime(M, sys)]

\* A slip of MtmAssignCSN: '<' for '<='.
MtmAssignCSN_lt(M, sys) ==
    LET csn == MtmGetCurrentTime(M, sys) IN
    IF csn < M.csn THEN [M EXCEPT !.csn = M.csn + 1] ELSE [M EXCEPT !.csn = csn]

\* MtmAssignCSN: the value returned is the csn field of the result.
MtmAssignCSN(M, sys) ==
    LET csn == MtmGetCurrentTime(M, sys) IN
    IF csn <= M.csn THEN [M EXCEPT !.csn = M.csn + 1] ELSE [M EXCEPT !.csn = csn]

\* A slip of the loop of MtmSyncClock: the body runs once, whatever it returned.
MtmSyncClockAgain_once(local_csn, global_csn) == FALSE

\* The loop condition of MtmSyncClock.
MtmSyncClockAgain(local_csn, global_csn) == local_csn < global_csn

\* One pass of the loop of MtmSyncClock: assign, and shift when still behind.
MtmSyncClockPass(M, sys, global_csn) ==
    LET M1 == MtmAssignCSN(M, sys) IN
    IF MtmSyncClockAgain(M1.csn, global_csn)
    THEN [M1 EXCEPT !.timeShift = @ + (global_csn - M1.csn)]
    ELSE M1

\* MtmSyncClock with the wall clock standing still during the call.
RECURSIVE MtmSyncClock(_, _, _)
MtmSyncClock(M, sys, global_csn) ==
    LET M1 == MtmAssignCSN(M, sys) IN
    IF MtmSyncClockAgain(M1.csn, global_csn)
    THEN MtmSyncClock([M1 EXCEPT !.timeShift = @ + (global_csn - M1.csn)], sys, global_csn)
    ELSE M1

\* ------------------------------------------------------ transaction states
\* A slot of the hash MtmXid2State that holds no entry. The last four fields
\* are history: the CSN assigned at prepare, the peers whose READY was counted,
\* the largest CSN a READY carried, and the node status when READY was queued.
NoState ==
    [used |-> FALSE, status |-> "IN_PROGRESS", snapshot |-> INVALID_CSN, csn |-> 0,
     gtidNode |-> 0, gtidXid |-> InvalidTransactionId, gid |-> 0, isLocal |-> TRUE,
     nVotes |-> 0, votingCompleted |-> FALSE, cmd |-> "MSG_INVALID", queued |-> FALSE,
     prepareCsn |-> 0, voters |-> {}, maxVote |-> 0, votedIn |-> "NONE"]

\* The processes with a transaction: a backend serving a client, and an
\* applier worker (a background worker) executing what a receiver got.
Procs == {"B", "W"}
IsBackgroundWorker(p) == p = "W"

\* MtmTx of a process that has run no transaction yet.
NoTrans ==
    [xid |-> InvalidTransactionId, gtidNode |-> 0, gtidXid |-> InvalidTransactionId,
     snapshot |-> INVALID_CSN, csn |-> 0, status |-> "IN_PROGRESS",
     isReplicated |-> FALSE, isDistributed |-> FALSE, isPrepared |-> FALSE,
     containsDML |-> FALSE, gid |-> 0]

\* MtmInitialize: the shared segment after construction.
MtmInitialize(sys) ==
    [status |-> "INITIALIZATION", recoverySlot |-> 0, csn |-> sys, timeShift |-> 0,
     nLiveNodes |-> MtmNodes, nAllNodes |-> MtmNodes,
     disabledNodeMask |-> {}, pglogicalNodeMask |-> {},
     walSenderLockerMask |-> {}, nodeLockerMask |-> {}, nLockers |-> 0,
     nActiveTransactions |-> 0, nReceivers |-> 0, nConfigChanges |-> 0,
     lastStatusChangeTime |-> [n \in Nodes |-> sys],
     xid2state |-> [x \in Xids |-> NoState],
     gid2state |-> [g \in Xids |-> InvalidTransactionId]]

\* ------------------------------------------------------------- membership
MtmSwitchClusterMode(M, mode) == [M EXCEPT !.status = mode]

\* MtmIsCoordinator: the state was created by a transaction that began here.
MtmIsCoordinator(t) == t.gtidNode = MtmNodeId

\* MtmAbortTransaction, with the decrement of the counter it guards.
MtmAbortTransaction(M, xid) ==
    IF M.xid2state[xid].status # "ABORTED"
    THEN [M EXCEPT !.xid2state[xid].status = "ABORTED",
                   !.nActiveTransactions = @ - 1]
    ELSE M

\* MtmWakeUpBackend: the vote wait of the coordinator is ended.
MtmWakeUpBackend(M, xid) ==
    IF ~M.xid2state[xid].votingCompleted
    THEN [M EXCEPT !.xid2state[xid].votingCompleted = TRUE]
    ELSE M

\* The state t is in the list of transactions (transListHead): it was
\* appended by MtmPrePrepareTransaction, which assigned its CSN.
MtmInTransList(t) == t.used /\ t.prepareCsn > 0

\* The loop "Interrupt voting for active transaction and abort them" over the
\* list of transactions.
RECURSIVE MtmInterruptVoting(_, _)
MtmInterruptVoting(M, xs) ==
    IF xs = {} THEN M
    ELSE LET x == CHOOSE y \in xs : TRUE
             t == M.xid2state[x]
             M1 == IF MtmInTransList(t) /\ MtmIsCoordinator(t) /\ ~t.votingCompleted
                      /\ t.status # "ABORTED"
                   THEN MtmWakeUpBackend(MtmAbortTransaction(M, x), x)
                   ELSE M
         IN MtmInterruptVoting(M1, xs \ {x})

MtmDisableNode(M, nodeId) ==
    [M EXCEPT !.disabledNodeMask = @ \cup {nodeId},
              !.lastStatusChangeTime[nodeId] = sysTime,
              !.nLiveNodes = IF nodeId # MtmNodeId THEN @ - 1 ELSE @]

MtmEnableNode(M, nodeId) ==
    [M EXCEPT !.disabledNodeMask = @ \ {nodeId},
              !.lastStatusChangeTime[nodeId] = sysTime,
              !.nLiveNodes = IF nodeId # MtmNodeId THEN @ + 1 ELSE @]

RECURSIVE MtmDisableNodes(_, _)
MtmDisableNodes(M, ns) ==
    IF ns = {} THEN M
    ELSE LET n == CHOOSE y \in ns : TRUE IN MtmDisableNodes(MtmDisableNode(M, n), ns \ {n})

\* A slip of MtmCheckQuorum: a bare majority counts as a minority.
MtmCheckQuorum_le(M) ==
    LET M1 == [M EXCEPT !.nConfigChanges = @ + 1] IN
    IF M1.nLiveNodes <= Majority(M1)
    THEN IF M1.status = "ONLINE" THEN MtmSwitchClusterMode(M1, "IN_MINORITY") ELSE M1
    ELSE IF M1.status = "IN_MINORITY" THEN MtmSwitchClusterMode(M1, "ONLINE") ELSE M1

MtmCheckQuorum(M) ==
    LET M1 == [M EXCEPT !.nConfigChanges = @ + 1] IN
    IF M1.nLiveNodes < Majority(M1)
    THEN IF M1.status = "ONLINE" THEN MtmSwitchClusterMode(M1, "IN_MINORITY") ELSE M1
    ELSE IF M1.status = "IN_MINORITY" THEN MtmSwitchClusterMode(M1, "ONLINE") ELSE M1

\* A slip of MtmStartRecovery: the own bit is not set.
MtmStartRecovery_nobit(M) == MtmSwitchClusterMode(M, "RECOVERY")

MtmStartRecovery(M) ==
    MtmSwitchClusterMode([M EXCEPT !.disabledNodeMask = @ \cup {MtmNodeId}], "RECOVERY")

MtmRecoveryCompleted(M) ==
    MtmSwitchClusterMode(
        [M EXCEPT !.recoverySlot = 0, !.disabledNodeMask = @ \ {MtmNodeId},
                  !.lastStatusChangeTime[MtmNodeId] = sysTime], "CONNECTED")

\* MtmRefreshClusterStatus, given the clique MtmFindMaxClique returned.
MtmRefreshClusterStatus(M, clique) ==
    IF Cardinality(clique) >= Majority(M)
    THEN LET disabled == (Nodes \ clique) \ M.disabledNodeMask
             M1 == MtmDisableNodes(M, disabled)
             M2 == IF disabled # {} THEN MtmCheckQuorum(M1) ELSE M1
             M3 == IF disabled # {} THEN MtmInterruptVoting(M2, Xids) ELSE M2
         IN IF MtmNodeId \in M3.disabledNodeMask
            THEN IF M3.status = "ONLINE" THEN MtmSwitchClusterMode(M3, "OFFLINE") ELSE M3
            ELSE IF M3.status = "OFFLINE" THEN MtmStartRecovery(M3) ELSE M3
    ELSE MtmSwitchClusterMode(M, "IN_MINORITY")

\* multimaster.node_disable_delay (milliseconds), as this cluster is configured.
MtmNodeDisableDelay == 1

\* The debounce test of MtmOnNodeDisconnect: the status of nodeId changed less
\* than MtmNodeDisableDelay ago and the disconnect is ignored.
MtmStatusBlinks(M, nodeId, now) ==
    M.lastStatusChangeTime[nodeId] + MSEC_TO_USEC(MtmNodeDisableDelay) > now

\* MtmOnNodeDisconnect past the debounce test: raftOk is the result of
\* RaftableSet, clique what MtmFindMaxClique returns in MtmRefreshClusterStatus.
MtmOnNodeDisconnect(M, nodeId, raftOk, clique) ==
    IF nodeId \in M.disabledNodeMask THEN M
    ELSE IF ~raftOk
         THEN IF M.status = "ONLINE" THEN MtmSwitchClusterMode(M, "IN_MINORITY") ELSE M
         ELSE IF ~MtmUseRaftable
              THEN MtmInterruptVoting(MtmCheckQuorum(MtmDisableNode(M, nodeId)), Xids)
              ELSE MtmRefreshClusterStatus(M, clique)

\* MtmDropNode past its range check.
MtmDropNode(M, nodeId) ==
    IF nodeId \notin M.disabledNodeMask
    THEN MtmCheckQuorum(MtmDisableNode(M, nodeId)) ELSE M

MtmReceiverStarted(M, nodeId) ==
    IF nodeId \notin M.pglogicalNodeMask
    THEN LET M1 == [M EXCEPT !.pglogicalNodeMask = @ \cup {nodeId}]
             M2 == IF nodeId \in M1.disabledNodeMask
                   THEN MtmCheckQuorum(MtmEnableNode(M1, nodeId)) ELSE M1
             M3 == [M2 EXCEPT !.nReceivers = @ + 1]
         IN IF M3.nReceivers = M3.nLiveNodes - 1 /\ M3.status = "CONNECTED"
            THEN MtmSwitchClusterMode(M3, "ONLINE") ELSE M3
    ELSE M

\* The loop of MtmGetReplicationMode ends when the node is connected or online.
MtmReplicationOpen(M) == M.status \in {"CONNECTED", "ONLINE"}

\* The test of the recovery slot: it is free, or it is the caller's.
MtmRecoverySlotFree(M, nodeId) == M.recoverySlot = 0 \/ M.recoverySlot = nodeId

\* MtmGetReplicationMode when it returns REPLMODE_RECOVERY for nodeId.
MtmGetReplicationMode(M, nodeId) ==
    [M EXCEPT !.recoverySlot = nodeId, !.nReceivers = 0, !.pglogicalNodeMask = {}]

\* MtmReplicationStartupHook of the wal-sender that serves nodeId; a disabled
\* node asking for "normal" is refused with an error.
MtmReplicationStartupHook(M, nodeId, mode) ==
    IF mode = "recovery"
    THEN IF nodeId \notin M.disabledNodeMask
         THEN MtmCheckQuorum(MtmDisableNode(M, nodeId)) ELSE M
    ELSE IF nodeId \in M.disabledNodeMask /\ mode = "recovered"
         THEN MtmCheckQuorum(MtmEnableNode(M, nodeId))
         ELSE M

\* A slip of MtmRecoveryCaughtUp: the active transactions are not looked at.
MtmRecoveryCaughtUp_noactive(M, nodeId, equalLSN, nearLSN) ==
    IF nodeId \notin M.disabledNodeMask THEN M
    ELSE IF equalLSN
         THEN LET M1 == IF nodeId \in M.nodeLockerMask
                        THEN [M EXCEPT !.walSenderLockerMask = @ \ {nodeId},
                                       !.nodeLockerMask = @ \ {nodeId},
                                       !.nLockers = @ - 1]
                        ELSE M
              IN [MtmEnableNode(M1, nodeId) EXCEPT !.nConfigChanges = @ + 1]
         ELSE IF nodeId \notin M.nodeLockerMask /\ nearLSN
              THEN [M EXCEPT !.nodeLockerMask = @ \cup {nodeId},
                             !.walSenderLockerMask = @ \cup {nodeId},
                             !.nLockers = @ + 1]
              ELSE M

\* MtmRecoveryCaughtUp for a wal-sender in a recovery session: equalLSN is
\* slotLSN == walLSN, nearLSN is slotLSN + MtmMinRecoveryLag > walLSN.
MtmRecoveryCaughtUp(M, nodeId, equalLSN, nearLSN) ==
    IF nodeId \notin M.disabledNodeMask THEN M
    ELSE IF equalLSN /\ M.nActiveTransactions = 0
         THEN LET M1 == IF nodeId \in M.nodeLockerMask
                        THEN [M EXCEPT !.walSenderLockerMask = @ \ {nodeId},
                                       !.nodeLockerMask = @ \ {nodeId},
                                       !.nLockers = @ - 1]
                        ELSE M
              IN [MtmEnableNode(M1, nodeId) EXCEPT !.nConfigChanges = @ + 1]
         ELSE IF nodeId \notin M.nodeLockerMask /\ nearLSN
              THEN [M EXCEPT !.nodeLockerMask = @ \cup {nodeId},
                             !.walSenderLockerMask = @ \cup {nodeId},
                             !.nLockers = @ + 1]
              ELSE M

\* The scan of MtmCheckClusterLock over the locking wal-senders, in index
\* order: sent is the set of wal-senders whose sentPtr equals the WAL position.
RECURSIVE MtmClearLockers(_, _, _)
MtmClearLockers(mask, i, sent) ==
    IF i > MtmNodes THEN mask
    ELSE IF i \in mask
         THEN IF i \in sent THEN MtmClearLockers(mask \ {i}, i + 1, sent) ELSE mask
         ELSE MtmClearLockers(mask, i + 1, sent)

\* One pass of MtmCheckClusterLock; the caller goes on when no wal-sender
\* locks the cluster in the result, and sleeps and retries otherwise.
MtmCheckClusterLock(M, sent) ==
    IF M.walSenderLockerMask = {} THEN M
    ELSE LET mask == IF M.nActiveTransactions = 0
                     THEN MtmClearLockers(M.walSenderLockerMask, 1, sent)
                     ELSE M.walSenderLockerMask
             M1 == [M EXCEPT !.walSenderLockerMask = mask]
         IN IF mask # {} THEN M1
            ELSE MtmCheckQuorum(
                   [M1 EXCEPT !.disabledNodeMask = @ \ M1.nodeLockerMask,
                              !.nLiveNodes = @ + M1.nLockers,
                              !.nLockers = 0, !.nodeLockerMask = {}])

\* The waits of MtmXidInMVCCSnapshot, in microseconds.
MIN_WAIT_TIMEOUT == 1000
MAX_WAIT_TIMEOUT == 100000
MAX_WAIT_LOOPS == 100

\* A backend that is not inside MtmXidInMVCCSnapshot.
NoCheck == [pc |-> "idle", i |-> 0, delay |-> MIN_WAIT_TIMEOUT, result |-> "none"]

\* A receiver that has not called MtmGetReplicationMode yet: pc tells whether
\* it is inside the call, recovery is the local flag of the call, mode what
\* the last call returned.
NoReceiver == [pc |-> "out", recovery |-> FALSE, mode |-> "none"]

\* The locals start and transTimeout of a process that is not in the vote wait.
NoWait == [start |-> 0, transTimeout |-> 0]

\* --------------------------------------------------- specification: clock
\* Process-local statics and the history variable at start.
InitMember ==
    /\ MtmIsRecoverySession = [n \in Others |-> FALSE]
    /\ last = [op |-> "MtmInitialize", node |-> 0]
    /\ MtmTx = [p \in Procs |-> NoTrans]
    /\ pc = [p \in Procs |-> "idle"]
    /\ twophase = [g \in Xids |-> "none"]
    /\ nConfigChanges = [p \in Procs |-> 0]
    /\ vis = NoCheck
    /\ receiver = [n \in Others |-> NoReceiver]
    /\ voteWait = [p \in Procs |-> NoWait]
    /\ XactIsoLevel = "XACT_REPEATABLE_READ"
    /\ MtmStateLock = [u \in LockUsers |-> "none"]
    /\ nodeCall = NoNodeCall
    /\ gc = NoGc
    /\ sub = NoSub
    /\ dl = NoDl
    /\ cfg = NoCfg

InitClock ==
    /\ sysTime \in 0..MaxTime
    /\ Mtm = MtmInitialize(sysTime)
    /\ InitMember
    /\ clk = [pc |-> "idle", arg |-> 0, shift0 |-> 0, lastRet |-> -1, prevMax |-> -1]

\* The wall clock moves forward.
ClockAdvance ==
    /\ \E t \in 0..MaxTime : t > sysTime /\ sysTime' = t
    /\ UNCHANGED <<Mtm, clk, memberVars, txVars>>

\* The wall clock is stepped backwards (NTP, an operator).
ClockStepBack ==
    /\ \E t \in 0..MaxTime : t < sysTime /\ sysTime' = t
    /\ UNCHANGED <<Mtm, clk, memberVars, txVars>>

\* A caller of MtmAssignCSN (MtmBeginTransaction, MtmPrePrepareTransaction).
AssignCall ==
    /\ clk.pc # "sync"
    /\ Mtm.csn < MaxCsn
    /\ Mtm' = MtmAssignCSN(Mtm, sysTime)
    /\ clk' = [clk EXCEPT !.pc = "idle", !.lastRet = Mtm'.csn,
                          !.prevMax = Max(clk.prevMax, clk.lastRet)]
    /\ UNCHANGED <<sysTime, memberVars, txVars>>

\* MtmSyncClock(global_csn) is entered (the caller holds the state lock).
SyncBegin ==
    /\ clk.pc # "sync"
    /\ Mtm.csn < MaxCsn
    /\ \E c \in 0..MaxCsn :
         clk' = [clk EXCEPT !.pc = "sync", !.arg = c, !.shift0 = Mtm.timeShift]
    /\ UNCHANGED <<Mtm, sysTime, memberVars, txVars>>

\* One pass of the loop; the clock is read anew in each pass.
SyncIter ==
    /\ clk.pc = "sync"
    /\ Mtm' = MtmSyncClockPass(Mtm, sysTime, clk.arg)
    /\ clk' = [clk EXCEPT
                 !.pc = IF MtmSyncClockAgain(Mtm'.csn, clk.arg) THEN "sync" ELSE "done",
                 !.lastRet = Mtm'.csn,
                 !.prevMax = Max(clk.prevMax, clk.lastRet)]
    /\ UNCHANGED <<sysTime, memberVars, txVars>>

NextClock == ClockAdvance \/ ClockStepBack \/ AssignCall \/ SyncBegin \/ SyncIter

SpecClock == InitClock /\ [][NextClock]_vars

\* The passes of a running loop are taken: the caller is a running process.
SpecClockFair == SpecClock /\ WF_vars(SyncIter)

\* C5: every value assign-csn returns is greater than all it returned before,
\* whatever the wall clock does and however assign and sync interleave.
C5_AssignStrictlyIncreasing == clk.lastRet >= 0 => clk.lastRet > clk.prevMax

\* C5 witness: a value was returned although the shifted clock reads less than
\* a value returned earlier.
C5_Witness ==
    /\ clk.prevMax >= 0
    /\ clk.lastRet > clk.prevMax
    /\ MtmGetCurrentTime(Mtm, sysTime) < clk.prevMax

\* C6: sync(c) returns, and then the last assigned CSN is at least c and
\* time-shift is not below its value at the call.
C6_SyncTerminatesAndCatchesUp ==
    /\ [](clk.pc = "done" => Mtm.csn >= clk.arg /\ Mtm.timeShift >= clk.shift0)
    /\ ((clk.pc = "sync") ~> (clk.pc = "done"))

\* C6 witness: a sync returned after having moved time-shift.
C6_Witness == clk.pc = "done" /\ Mtm.timeShift > clk.shift0 /\ Mtm.csn >= clk.arg

\* ------------------------------------------------- membership specification
\* The handlers that write status, the masks and the counters of the shared
\* segment, each run under the state lock by the process named in its comment.
InitMembers ==
    /\ sysTime = 0
    /\ Mtm = MtmInitialize(sysTime)
    /\ clk = [pc |-> "idle", arg |-> 0, shift0 |-> 0, lastRet |-> -1, prevMax |-> -1]
    /\ InitMember

Ran(op, n) == last' = [op |-> op, node |-> n]

\* Arbiter: the connections to the peers are open, the node leaves INITIALIZATION.
ArbiterConnected ==
    /\ Mtm.status = "INITIALIZATION"
    /\ Mtm' = MtmSwitchClusterMode(Mtm, "CONNECTED")
    /\ Ran("ArbiterConnected", 0)
    /\ UNCHANGED <<clockVars, MtmIsRecoverySession, txVars>>

\* Watchdog: no heartbeat from nodeId. The clique cannot hold both this node
\* and nodeId, whose link this node has just reported as broken.
OnNodeDisconnect ==
    /\ Mtm.nConfigChanges < MaxConfigChanges
    /\ \E nodeId \in Others \ Mtm.disabledNodeMask, raftOk \in BOOLEAN,
          clique \in SUBSET Nodes \ {{}} :
         /\ ~(MtmNodeId \in clique /\ nodeId \in clique)
         /\ Mtm' = MtmOnNodeDisconnect(Mtm, nodeId, raftOk, clique)
         /\ Ran("MtmOnNodeDisconnect", nodeId)
    /\ UNCHANGED <<clockVars, MtmIsRecoverySession, txVars>>

\* MtmRefreshClusterStatus on a change of the published connectivity masks.
RefreshClusterStatus ==
    /\ Mtm.nConfigChanges < MaxConfigChanges
    /\ \E clique \in SUBSET Nodes \ {{}} :
         Mtm' = MtmRefreshClusterStatus(Mtm, clique)
    /\ Ran("MtmRefreshClusterStatus", 0)
    /\ UNCHANGED <<clockVars, MtmIsRecoverySession, txVars>>

\* Receiver of nodeId: its replication connection is started.
ReceiverStarted ==
    /\ Mtm.nConfigChanges < MaxConfigChanges
    /\ \E nodeId \in Others \ Mtm.pglogicalNodeMask :
         /\ Mtm' = MtmReceiverStarted(Mtm, nodeId)
         /\ Ran("MtmReceiverStarted", nodeId)
    /\ UNCHANGED <<clockVars, MtmIsRecoverySession, txVars>>

\* Receiver of nodeId while this node is in recovery: a pass of the loop of
\* MtmGetReplicationMode in which it takes the recovery slot and returns
\* REPLMODE_RECOVERY.
GetReplicationMode ==
    /\ ~MtmReplicationOpen(Mtm)
    /\ Mtm.status = "RECOVERY"
    /\ \E nodeId \in Others :
         /\ MtmRecoverySlotFree(Mtm, nodeId)
         /\ Mtm' = MtmGetReplicationMode(Mtm, nodeId)
         /\ receiver' = [receiver EXCEPT ![nodeId] =
                [pc |-> "out", recovery |-> TRUE, mode |-> "REPLMODE_RECOVERY"]]
         /\ Ran("MtmGetReplicationMode", nodeId)
    /\ twophase' = [g \in Xids |-> IF twophase[g] = "prepared" THEN "aborted" ELSE twophase[g]]
    /\ UNCHANGED <<clockVars, MtmIsRecoverySession, MtmTx, pc, nConfigChanges, voteWait, vis, XactIsoLevel, MtmStateLock, nodeCall, gc, sub, dl, cfg>>

\* Receiver of nodeId: a pass of the loop of MtmGetReplicationMode that ends in
\* MtmSleep, the node being neither connected nor online and the recovery
\* slot not to be had.
ReplicationModeSleep ==
    /\ ~MtmReplicationOpen(Mtm)
    /\ \E nodeId \in Others :
         /\ ~(Mtm.status = "RECOVERY" /\ MtmRecoverySlotFree(Mtm, nodeId))
         /\ receiver' = [receiver EXCEPT ![nodeId] =
                [pc |-> "waiting",
                 recovery |-> (@.pc = "waiting" /\ @.recovery) \/ Mtm.status = "RECOVERY",
                 mode |-> "none"]]
         /\ Ran("MtmSleep", nodeId)
    /\ UNCHANGED <<Mtm, clockVars, MtmIsRecoverySession, MtmTx, pc, twophase, nConfigChanges, voteWait, vis, XactIsoLevel, MtmStateLock, nodeCall, gc, sub, dl, cfg>>

\* Receiver of nodeId: MtmGetReplicationMode finds the node connected or
\* online and returns REPLMODE_RECOVERED when it has waited through a
\* recovery, REPLMODE_NORMAL otherwise.
ReplicationModeReturn ==
    /\ MtmReplicationOpen(Mtm)
    /\ \E nodeId \in Others :
         LET recovery == receiver[nodeId].pc = "waiting" /\ receiver[nodeId].recovery
         IN /\ receiver' = [receiver EXCEPT ![nodeId] =
                   [pc |-> "out", recovery |-> recovery,
                    mode |-> IF recovery THEN "REPLMODE_RECOVERED" ELSE "REPLMODE_NORMAL"]]
            /\ Ran("MtmGetReplicationModeReturn", nodeId)
    /\ UNCHANGED <<Mtm, clockVars, MtmIsRecoverySession, MtmTx, pc, twophase, nConfigChanges, voteWait, vis, XactIsoLevel, MtmStateLock, nodeCall, gc, sub, dl, cfg>>

\* Wal-sender for nodeId: the peer opens a replication session in some mode.
\* A disabled peer that asks for "normal" gets an error and no session.
ReplicationStartupHook ==
    /\ Mtm.nConfigChanges < MaxConfigChanges
    /\ \E nodeId \in Others, mode \in {"recovery", "recovered", "normal"} :
         /\ Mtm' = MtmReplicationStartupHook(Mtm, nodeId, mode)
         /\ MtmIsRecoverySession' =
              [MtmIsRecoverySession EXCEPT ![nodeId] = (mode = "recovery")]
         /\ Ran("MtmReplicationStartupHook", nodeId)
    /\ UNCHANGED <<clockVars, txVars>>

\* Wal-sender for nodeId writes a commit record: MtmRecoveryCaughtUp. For a
\* disabled node outside a recovery session MtmIsRecoveredNode raises an error.
RecoveryCaughtUp ==
    /\ Mtm.nConfigChanges < MaxConfigChanges
    /\ \E nodeId \in Others, equalLSN \in BOOLEAN, nearLSN \in BOOLEAN :
         /\ nodeId \in Mtm.disabledNodeMask => MtmIsRecoverySession[nodeId]
         /\ Mtm' = MtmRecoveryCaughtUp(Mtm, nodeId, equalLSN, nearLSN)
         /\ MtmIsRecoverySession' =
              [MtmIsRecoverySession EXCEPT
                 ![nodeId] = IF nodeId \in Mtm.disabledNodeMask THEN @ ELSE FALSE]
         /\ Ran("MtmRecoveryCaughtUp", nodeId)
    /\ UNCHANGED <<clockVars, txVars>>

\* A backend in MtmPrePrepareTransaction: one pass of MtmCheckClusterLock.
CheckClusterLock ==
    /\ Mtm.nConfigChanges < MaxConfigChanges
    /\ Mtm.walSenderLockerMask # {}
    /\ \E sent \in SUBSET Mtm.walSenderLockerMask :
         Mtm' = MtmCheckClusterLock(Mtm, sent)
    /\ Ran("MtmCheckClusterLock", 0)
    /\ UNCHANGED <<clockVars, MtmIsRecoverySession, txVars>>

\* Applier: a transaction of the recovery stream arrives although this node is
\* not in recovery (MtmJoinTransaction).
StartRecovery ==
    /\ Mtm.status # "RECOVERY"
    /\ Mtm' = MtmStartRecovery(Mtm)
    /\ Ran("MtmStartRecovery", MtmNodeId)
    /\ UNCHANGED <<clockVars, MtmIsRecoverySession, txVars>>

\* Applier: the donor reports caught-up (process_remote_commit), or a normal
\* transaction arrives while in recovery (MtmJoinTransaction).
RecoveryCompleted ==
    /\ Mtm.status = "RECOVERY"
    /\ Mtm.recoverySlot # 0
    /\ Mtm' = MtmRecoveryCompleted(Mtm)
    /\ Ran("MtmRecoveryCompleted", MtmNodeId)
    /\ UNCHANGED <<clockVars, MtmIsRecoverySession, txVars>>

\* mtm.drop_node(nodeId).
DropNode ==
    /\ Mtm.nConfigChanges < MaxConfigChanges
    /\ \E nodeId \in Others \ Mtm.disabledNodeMask :
         /\ nodeId <= Mtm.nLiveNodes
         /\ Mtm' = MtmDropNode(Mtm, nodeId)
         /\ Ran("MtmDropNode", nodeId)
    /\ UNCHANGED <<clockVars, MtmIsRecoverySession, txVars>>

NextMembers ==
    \/ ArbiterConnected \/ OnNodeDisconnect \/ RefreshClusterStatus
    \/ ReceiverStarted \/ GetReplicationMode \/ ReplicationStartupHook
    \/ RecoveryCaughtUp \/ CheckClusterLock \/ StartRecovery
    \/ RecoveryCompleted \/ DropNode

SpecMembers == InitMembers /\ [][NextMembers]_vars

\* C7: when the live-node count drops below the majority the status becomes
\* IN_MINORITY, and while the count is below the majority the node is not
\* ONLINE, the only status in which MtmBeginTransaction and
\* MtmPrePrepareTransaction let a new distributed transaction through.
C7_MinorityRefusesCommits ==
    /\ [][(Mtm.nLiveNodes >= Majority(Mtm) /\ Mtm'.nLiveNodes < Majority(Mtm'))
            => Mtm'.status = "IN_MINORITY"]_vars
    /\ [](Mtm.nLiveNodes < Majority(Mtm) => Mtm.status # "ONLINE")

\* The handlers that complete the recovery of a node: the donor's wal-sender
\* (caught up, with or without the cluster lock), a peer announcing it has
\* recovered, and for the own bit the end of the own recovery.
RecoveryCompletion ==
    {"MtmRecoveryCaughtUp", "MtmCheckClusterLock", "MtmRecoveryCompleted",
     "MtmReplicationStartupHook"}

\* C8: a bit of disabledNodeMask is cleared only by the completion of that
\* node's recovery, never by clique membership, a reconnect or a receiver start.
C8_DisabledUntilRecovered ==
    [][\A n \in Nodes :
         (n \in Mtm.disabledNodeMask /\ n \notin Mtm'.disabledNodeMask)
            => last'.op \in RecoveryCompletion]_vars

\* C9: while the status is RECOVERY the own bit of disabledNodeMask is set, and
\* the own bit is cleared by nothing but MtmRecoveryCompleted.
C9_RecoveryKeepsOwnBit ==
    /\ [](Mtm.status = "RECOVERY" => MtmNodeId \in Mtm.disabledNodeMask)
    /\ [][(MtmNodeId \in Mtm.disabledNodeMask /\ MtmNodeId \notin Mtm'.disabledNodeMask)
            => last'.op = "MtmRecoveryCompleted"]_vars

\* C9 witness: a recovery has run on the recovery slot and has just completed,
\* which cleared the own bit.
C9_Witness ==
    /\ last.op = "MtmRecoveryCompleted"
    /\ Mtm.status = "CONNECTED"
    /\ MtmNodeId \notin Mtm.disabledNodeMask
    /\ Mtm.pglogicalNodeMask # {}

\* ----------------------------------------------------- transaction handlers
\* The local xid the engine gives the transaction of process p; the gid of a
\* prepared transaction is named by the local xid that prepared it.
XidOf(p) == IF p = "B" THEN MaxXid - 1 ELSE MaxXid

MtmResetTransaction(x) ==
    [x EXCEPT !.snapshot = INVALID_CSN, !.xid = InvalidTransactionId,
              !.gtidXid = InvalidTransactionId, !.isDistributed = FALSE,
              !.isPrepared = FALSE, !.status = "UNKNOWN"]

\* MtmBeginTransaction (XACT_EVENT_START): user is MtmIsUserTransaction(), and
\* ok is FALSE when it raises "Multimaster node is not online".
MtmBeginTransaction(M, x, sys, user) ==
    IF x.snapshot = INVALID_CSN
    THEN LET x1 == [x EXCEPT !.xid = InvalidTransactionId, !.isReplicated = FALSE,
                             !.isDistributed = user, !.isPrepared = FALSE]
         IN IF user /\ M.status # "ONLINE"
            THEN [M |-> M, x |-> x1, ok |-> FALSE]
            ELSE LET M1 == MtmAssignCSN(M, sys)
                 IN [M |-> M1,
                     x |-> [x1 EXCEPT !.containsDML = FALSE, !.snapshot = M1.csn,
                                      !.gtidXid = InvalidTransactionId, !.gid = 0,
                                      !.status = "IN_PROGRESS"],
                     ok |-> TRUE]
    ELSE [M |-> M, x |-> x, ok |-> TRUE]

\* MtmCreateTransState: enters (or finds) the state of x.xid.
MtmCreateTransState(M, x) ==
    LET coord == x.gtidXid = InvalidTransactionId IN
    [M EXCEPT !.xid2state[x.xid] =
        [@ EXCEPT !.used = TRUE, !.status = "IN_PROGRESS", !.snapshot = x.snapshot,
                  !.isLocal = TRUE,
                  !.gtidNode = IF coord THEN MtmNodeId ELSE x.gtidNode,
                  !.gtidXid = IF coord THEN x.xid ELSE x.gtidXid,
                  !.gid = x.gid]]

\* MtmSendNotificationMessage: the state is queued for the arbiter.
MtmSendNotificationMessage(M, xid, cmd) ==
    [M EXCEPT !.xid2state[xid].cmd = cmd, !.xid2state[xid].queued = TRUE,
              !.xid2state[xid].votedIn =
                  IF cmd = "MSG_READY" THEN M.status ELSE @]

\* MtmPrePrepareTransaction past the cluster lock: the state is created and
\* the transaction counted as active.
MtmPrePrepareCreate(M, x, sys) ==
    LET M3 == MtmAssignCSN(MtmCreateTransState(M, x), sys)
        M4 == [M3 EXCEPT
                 !.xid2state[x.xid] =
                    [@ EXCEPT !.isLocal = x.isReplicated \/ ~x.containsDML,
                              !.snapshot = x.snapshot, !.csn = M3.csn,
                              !.nVotes = 1, !.votingCompleted = FALSE,
                              !.cmd = "MSG_INVALID",
                              !.prepareCsn = M3.csn, !.voters = {},
                              !.maxVote = 0, !.votedIn = "NONE"],
                 !.nActiveTransactions = @ + 1]
    IN [M |-> M4, x |-> [x EXCEPT !.isPrepared = TRUE, !.csn = M3.csn],
        ok |-> TRUE, locked |-> FALSE]

\* A slip of the cluster lock test: own transactions are let through as well.
MtmPrePrepareLocked_nolock(M, x, sys, sent) == MtmPrePrepareCreate(M, x, sys)

\* MtmPrePrepareTransaction from MtmLock on, with one pass of the loop of
\* MtmCheckClusterLock for a transaction that is not replicated: locked tells
\* that the pass ended in MtmSleep, and then nothing else was done.
MtmPrePrepareLocked(M, x, sys, sent) ==
    LET M2 == IF ~x.isReplicated THEN MtmCheckClusterLock(M, sent) ELSE M
    IN IF ~x.isReplicated /\ M2.walSenderLockerMask # {}
       THEN [M |-> M2, x |-> x, ok |-> TRUE, locked |-> TRUE]
       ELSE MtmPrePrepareCreate(M2, x, sys)

\* MtmPrePrepareTransaction (XACT_EVENT_PRE_PREPARE) of process p. refresh
\* tells whether the time gate lets MtmRefreshClusterStatus run, clique is
\* what it finds, sent the wal-senders that have sent all WAL; ok is FALSE
\* when the handler raises "Abort current transaction because this cluster
\* node is in ... status".
MtmPrePrepareTransaction(M, x, p, sys, refresh, clique, sent) ==
    IF ~x.isDistributed THEN [M |-> M, x |-> x, ok |-> TRUE, locked |-> FALSE]
    ELSE
    LET x1 == [x EXCEPT !.xid = XidOf(p)]
        M1 == IF M.disabledNodeMask # {} /\ refresh
              THEN MtmRefreshClusterStatus(M, clique) ELSE M
    IN IF M.disabledNodeMask # {} /\ ~IsBackgroundWorker(p) /\ M1.status # "ONLINE"
       THEN [M |-> M1, x |-> x1, ok |-> FALSE, locked |-> FALSE]
       ELSE MtmPrePrepareLocked(M1, x1, sys, sent)

\* A slip of MtmPostPrepareTransaction: READY is sent in recovery as well.
MtmPostPrepareTransaction_vote(M, x) ==
    IF ~x.isDistributed THEN [M |-> M, x |-> x, wait |-> FALSE]
    ELSE IF ~MtmIsCoordinator(M.xid2state[x.xid]) \/ M.status = "RECOVERY"
         THEN [M |-> MtmSendNotificationMessage(
                        [M EXCEPT !.gid2state[x.gid] = x.xid,
                                  !.xid2state[x.xid].votingCompleted = TRUE],
                        x.xid, "MSG_READY"),
               x |-> MtmResetTransaction(x), wait |-> FALSE]
         ELSE [M |-> M, x |-> x, wait |-> TRUE]

\* MtmPostPrepareTransaction (XACT_EVENT_POST_PREPARE) up to its wait loop:
\* wait tells that the caller is the coordinator and goes on to collect votes.
MtmPostPrepareTransaction(M, x) ==
    IF ~x.isDistributed THEN [M |-> M, x |-> x, wait |-> FALSE]
    ELSE IF ~MtmIsCoordinator(M.xid2state[x.xid]) \/ M.status = "RECOVERY"
         THEN LET M1 == [M EXCEPT !.gid2state[x.gid] = x.xid,
                                  !.xid2state[x.xid].votingCompleted = TRUE]
                  M2 == IF M.status # "RECOVERY"
                        THEN LET M3 == MtmSendNotificationMessage(M1, x.xid, "MSG_READY")
                             IN IF ~MtmUseDtm
                                THEN [M3 EXCEPT !.xid2state[x.xid].status = "UNKNOWN"]
                                ELSE M3
                        ELSE [M1 EXCEPT !.xid2state[x.xid].status = "UNKNOWN"]
              IN [M |-> M2, x |-> MtmResetTransaction(x), wait |-> FALSE]
         ELSE [M |-> M, x |-> x, wait |-> TRUE]

\* multimaster.twopc_min_timeout (milliseconds) and
\* multimaster.twopc_prepare_ratio (percent), as this cluster is configured.
Mtm2PCMinTimeout == 1
Mtm2PCPrepareRatio == 150

\* A slip of the timeout: the minimum is left out.
MtmTransTimeout_nomin(ts) == ((ts.csn - ts.snapshot) * Mtm2PCPrepareRatio) \div 100

\* transTimeout of MtmPostPrepareTransaction, in microseconds; the product is
\* divided as C divides it, the operands being non-negative.
MtmTransTimeout(ts) ==
    Max(MSEC_TO_USEC(Mtm2PCMinTimeout), ((ts.csn - ts.snapshot) * Mtm2PCPrepareRatio) \div 100)

\* The last conjunct of the wait loop read negatively: the timeout has passed.
MtmTimeoutExpired(w, now) == ~(w.start + w.transTimeout >= now)

\* A slip of the loop condition: the timeout is not looked at.
MtmVotingGoesOn_notimeout(M, xid, saved, expired) ==
    /\ ~M.xid2state[xid].votingCompleted
    /\ saved = M.nConfigChanges
    /\ M.status = "ONLINE"
    /\ M.xid2state[xid].status # "ABORTED"

\* The condition of the wait loop of the coordinator; saved is the value of
\* nConfigChanges read before the loop, expired whether the timeout has passed.
MtmVotingGoesOn(M, xid, saved, expired) ==
    /\ ~M.xid2state[xid].votingCompleted
    /\ saved = M.nConfigChanges
    /\ M.status = "ONLINE"
    /\ M.xid2state[xid].status # "ABORTED"
    /\ ~expired

\* A slip of the test after the loop: a configuration change is not looked at.
MtmVotingFailed_nocfg(M, xid, saved) ==
    /\ M.xid2state[xid].status # "ABORTED"
    /\ ~M.xid2state[xid].votingCompleted

\* The test after the loop: the transaction is aborted by the coordinator.
MtmVotingFailed(M, xid, saved) ==
    /\ M.xid2state[xid].status # "ABORTED"
    /\ (~M.xid2state[xid].votingCompleted \/ saved # M.nConfigChanges)

\* The end of MtmPostPrepareTransaction at the coordinator.
MtmPostPrepareResult(M, x, saved) ==
    LET M1 == IF MtmVotingFailed(M, x.xid, saved) THEN MtmAbortTransaction(M, x.xid) ELSE M
    IN [M |-> M1, x |-> [x EXCEPT !.status = M1.xid2state[x.xid].status]]

\* MtmAbortPreparedTransaction (XACT_EVENT_ABORT_PREPARED).
MtmAbortPreparedTransaction(M, x) ==
    IF M.status = "RECOVERY" THEN [M |-> M, x |-> x]
    ELSE IF x.status # "ABORTED"
         THEN LET ts == M.gid2state[x.gid]
                  M1 == [M EXCEPT !.gid2state[x.gid] = InvalidTransactionId]
              IN [M |-> IF ts # InvalidTransactionId THEN MtmAbortTransaction(M1, ts) ELSE M1,
                  x |-> [x EXCEPT !.status = "ABORTED"]]
         ELSE [M |-> M, x |-> x]

\* The test in MtmEndTransaction that decides whose CSN the commit records.
MtmTakesCsn(xcsn, tscsn, status) == xcsn > tscsn \/ status = "RECOVERY"

\* A slip of the commit branch: the state is left as MtmCreateTransState
\* makes it instead of COMMITTED.
MtmCommitState_reopen(M, xid, xcsn, sys) ==
    LET M1 == IF MtmTakesCsn(xcsn, M.xid2state[xid].csn, M.status)
              THEN MtmSyncClock([M EXCEPT !.xid2state[xid].csn = xcsn], sys, xcsn)
              ELSE M
    IN [M1 EXCEPT !.xid2state[xid].status = "IN_PROGRESS",
                  !.nActiveTransactions = @ - 1]

\* The commit branch of MtmEndTransaction for the state of xid.
MtmCommitState(M, xid, xcsn, sys) ==
    LET M1 == IF MtmTakesCsn(xcsn, M.xid2state[xid].csn, M.status)
              THEN MtmSyncClock([M EXCEPT !.xid2state[xid].csn = xcsn], sys, xcsn)
              ELSE M
    IN [M1 EXCEPT !.xid2state[xid].status = "COMMITTED",
                  !.nActiveTransactions = @ - 1]

\* A slip of MtmEndTransaction: the abort of a replicated transaction is not
\* reported to its coordinator.
MtmEndTransaction_novote(M, x, commit, sys) ==
    IF x.status # "ABORTED" /\ x.isDistributed /\ (x.isPrepared \/ x.isReplicated)
    THEN LET byGid == ~x.isPrepared /\ x.gid # 0
             ts == IF x.isPrepared THEN x.xid
                   ELSE IF byGid THEN M.gid2state[x.gid] ELSE InvalidTransactionId
             M0 == IF byGid THEN [M EXCEPT !.gid2state[x.gid] = InvalidTransactionId] ELSE M
             M1 == IF ts = InvalidTransactionId THEN M0
                   ELSE IF commit THEN MtmCommitState(M0, ts, x.csn, sys)
                   ELSE MtmAbortTransaction(M0, ts)
         IN [M |-> M1, x |-> MtmResetTransaction(x)]
    ELSE [M |-> M, x |-> MtmResetTransaction(x)]

\* MtmEndTransaction (XACT_EVENT_COMMIT, XACT_EVENT_ABORT).
MtmEndTransaction(M, x, commit, sys) ==
    IF x.status # "ABORTED" /\ x.isDistributed /\ (x.isPrepared \/ x.isReplicated)
    THEN LET byGid == ~x.isPrepared /\ x.gid # 0
             ts == IF x.isPrepared THEN x.xid
                   ELSE IF byGid THEN M.gid2state[x.gid] ELSE InvalidTransactionId
             M0 == IF byGid THEN [M EXCEPT !.gid2state[x.gid] = InvalidTransactionId] ELSE M
             M1 == IF ts = InvalidTransactionId THEN M0
                   ELSE IF commit THEN MtmCommitState(M0, ts, x.csn, sys)
                   ELSE MtmAbortTransaction(M0, ts)
             M2 == IF ~commit /\ x.isReplicated /\ x.gtidXid # InvalidTransactionId
                   THEN IF ts = InvalidTransactionId
                        THEN LET M3 == MtmAssignCSN(M1, sys)
                             IN MtmSendNotificationMessage(
                                  [M3 EXCEPT !.xid2state[x.xid] =
                                     [@ EXCEPT !.used = TRUE, !.status = "ABORTED",
                                               !.isLocal = TRUE, !.snapshot = x.snapshot,
                                               !.csn = M3.csn, !.gtidNode = x.gtidNode,
                                               !.gtidXid = x.gtidXid,
                                               !.votingCompleted = TRUE]],
                                  x.xid, "MSG_ABORTED")
                        ELSE MtmSendNotificationMessage(M1, ts, "MSG_ABORTED")
                   ELSE M1
         IN [M |-> M2, x |-> MtmResetTransaction(x)]
    ELSE [M |-> M, x |-> MtmResetTransaction(x)]

\* MtmJoinTransaction: the applier joins the transaction a BEGIN announces.
MtmJoinTransaction(M, x, p, node, gxid, globalSnapshot, sys) ==
    LET x1 == [x EXCEPT !.gtidNode = node, !.gtidXid = gxid, !.xid = XidOf(p),
                        !.isReplicated = TRUE, !.isDistributed = TRUE,
                        !.containsDML = TRUE]
        x2 == IF globalSnapshot # INVALID_CSN
              THEN [x1 EXCEPT !.snapshot = globalSnapshot] ELSE x1
        M1 == IF globalSnapshot # INVALID_CSN
              THEN LET Ms == MtmSyncClock(M, sys, globalSnapshot)
                   IN IF Ms.status # "RECOVERY" THEN MtmCreateTransState(Ms, x2) ELSE Ms
              ELSE M
        M2 == IF gxid = InvalidTransactionId
              THEN IF M1.status # "RECOVERY" THEN MtmStartRecovery(M1) ELSE M1
              ELSE IF M1.status = "RECOVERY" THEN MtmRecoveryCompleted(M1) ELSE M1
    IN [M |-> M2, x |-> x2]

\* MtmSetCurrentTransactionGID and MtmSetCurrentTransactionCSN.
MtmSetCurrentTransactionGID(x, gid) ==
    [x EXCEPT !.gid = gid, !.isDistributed = TRUE, !.isReplicated = TRUE]

MtmSetCurrentTransactionCSN(x, csn) ==
    [x EXCEPT !.csn = csn, !.isDistributed = TRUE, !.isReplicated = TRUE]

\* ------------------------------------------------ the arbiter (vote channel)
\* The vote of a participant is sent: the queued state leaves the list, and a
\* state that voted READY becomes in-doubt.
MtmArbiterSend(M, xid) ==
    [M EXCEPT !.xid2state[xid].queued = FALSE,
              !.xid2state[xid].status =
                  IF M.xid2state[xid].cmd = "MSG_READY" /\ @ = "IN_PROGRESS"
                  THEN "UNKNOWN" ELSE @]

\* READY(gid, csn) of node n reaches the coordinator: the vote is counted, the
\* CSN of the state becomes the maximum of the votes, and with the vote of the
\* last live node the voting is completed and the state becomes in-doubt.
MtmArbiterReady(M, xid, n, csn, sys) ==
    LET M1 == [M EXCEPT !.xid2state[xid] =
                  [@ EXCEPT !.nVotes = @ + 1, !.voters = @ \cup {n},
                            !.maxVote = Max(@, csn), !.csn = Max(@, csn)]]
        M2 == MtmSyncClock(M1, sys, csn)
    IN IF M2.xid2state[xid].nVotes >= M2.nLiveNodes
       THEN MtmWakeUpBackend([M2 EXCEPT !.xid2state[xid].status = "UNKNOWN"], xid)
       ELSE M2

\* ABORTED(gid) of a participant reaches the coordinator.
MtmArbiterAborted(M, xid) == MtmWakeUpBackend(MtmAbortTransaction(M, xid), xid)

\* MtmGetGlobalTransactionStatus: the status of the state the gid names.
MtmGetGlobalTransactionStatus(M, gid) ==
    IF M.gid2state[gid] # InvalidTransactionId
    THEN M.xid2state[M.gid2state[gid]].status ELSE "ABORTED"

\* ----------------------------------------------- transaction specification
\* One backend B that runs a distributed transaction as coordinator and one
\* applier worker W that applies a transaction of a peer, on a node that has
\* come ONLINE, with the membership handlers that run beside them.
\* The CSNs a peer sends: one below and one above what this node assigns in
\* the run, and the snapshots a BEGIN carries (none, or one ahead of the clock).
RemoteCsns == {1, MaxCsn - 2}
Snapshots == {INVALID_CSN, MaxCsn - 4}

InitTx ==
    /\ sysTime = 0
    /\ Mtm = [MtmInitialize(sysTime) EXCEPT !.status = "ONLINE",
                                           !.pglogicalNodeMask = Others,
                                           !.nReceivers = MtmNodes - 1]
    /\ clk = [pc |-> "idle", arg |-> 0, shift0 |-> 0, lastRet |-> -1, prevMax |-> -1]
    /\ InitMember

\* The process-local part of a step of process p.
Step(p, x, to) ==
    /\ MtmTx' = [MtmTx EXCEPT ![p] = x]
    /\ pc' = [pc EXCEPT ![p] = to]

\* Backend: StartTransactionCommand of a user transaction. When the node is
\* not online the error aborts the transaction (MtmEndTransaction).
B_Begin ==
    /\ pc["B"] = "idle"
    /\ Mtm.csn < MaxCsn
    /\ LET r == MtmBeginTransaction(Mtm, MtmTx["B"], sysTime, TRUE)
       IN /\ Mtm' = r.M
          /\ IF r.ok THEN Step("B", r.x, "active")
             ELSE Step("B", MtmEndTransaction(r.M, r.x, FALSE, sysTime).x, "done")
    /\ Ran("MtmBeginTransaction", XidOf("B"))
    /\ UNCHANGED <<clockVars, MtmIsRecoverySession, twophase, nConfigChanges, voteWait, vis, XactIsoLevel, MtmStateLock, nodeCall, gc, sub, dl, cfg, receiver>>

\* Backend: the executor runs a statement that writes.
B_Write ==
    /\ pc["B"] = "active"
    /\ ~MtmTx["B"].containsDML
    /\ Step("B", [MtmTx["B"] EXCEPT !.containsDML = TRUE], "active")
    /\ Ran("MtmExecutorFinish", XidOf("B"))
    /\ UNCHANGED <<Mtm, clockVars, MtmIsRecoverySession, twophase, nConfigChanges, voteWait, vis, XactIsoLevel, MtmStateLock, nodeCall, gc, sub, dl, cfg, receiver>>

\* Backend: commit of a transaction that wrote nothing: MtmTwoPhaseCommit
\* leaves it alone and XACT_EVENT_COMMIT ends it.
B_Commit ==
    /\ pc["B"] = "active"
    /\ ~MtmTx["B"].containsDML
    /\ LET r == MtmEndTransaction(Mtm, MtmTx["B"], TRUE, sysTime)
       IN Mtm' = r.M /\ Step("B", r.x, "done")
    /\ Ran("MtmEndTransaction", XidOf("B"))
    /\ UNCHANGED <<clockVars, MtmIsRecoverySession, twophase, nConfigChanges, voteWait, vis, XactIsoLevel, MtmStateLock, nodeCall, gc, sub, dl, cfg, receiver>>

\* PrepareTransactionBlock and CommitTransactionCommand up to the prepare
\* record: for the backend out of MtmTwoPhaseCommit, which names the gid, for
\* the applier out of process_remote_commit (PGLOGICAL_PREPARE). An error of
\* the handler aborts the transaction.
PrePrepare ==
    /\ Mtm.csn < MaxCsn
    /\ \E p \in Procs, refresh \in BOOLEAN, clique \in SUBSET Nodes \ {{}},
          sent \in SUBSET Mtm.walSenderLockerMask :
         /\ pc[p] = "active"
         /\ p = "B" => MtmTx[p].containsDML
         /\ ~(Mtm.disabledNodeMask # {} /\ refresh) => clique = Nodes
         /\ LET x0 == IF p = "B" THEN [MtmTx[p] EXCEPT !.gid = XidOf(p)]
                      ELSE MtmSetCurrentTransactionGID(MtmTx[p], XidOf(p))
                r == MtmPrePrepareTransaction(Mtm, x0, p, sysTime, refresh, clique, sent)
            IN IF r.locked
               THEN /\ Mtm' = r.M
                    /\ Step(p, r.x, "locked")
                    /\ UNCHANGED twophase
               ELSE IF r.ok
               THEN /\ Mtm' = r.M
                    /\ Step(p, r.x, "prepared")
                    /\ twophase' = [twophase EXCEPT ![XidOf(p)] = "prepared"]
               ELSE LET e == MtmEndTransaction(r.M, r.x, FALSE, sysTime)
                    IN /\ Mtm' = e.M
                       /\ Step(p, e.x, "done")
                       /\ UNCHANGED twophase
         /\ Ran("MtmPrePrepareTransaction", XidOf(p))
    /\ UNCHANGED <<clockVars, MtmIsRecoverySession, nConfigChanges, voteWait, vis, XactIsoLevel, MtmStateLock, nodeCall, gc, sub, dl, cfg, receiver>>

\* A process sleeping in MtmCheckClusterLock wakes up: the next pass of the
\* loop, and the rest of MtmPrePrepareTransaction when the lock is gone.
PrePrepareRetry ==
    /\ Mtm.csn < MaxCsn
    /\ \E p \in Procs, sent \in SUBSET Mtm.walSenderLockerMask :
         /\ pc[p] = "locked"
         /\ LET r == MtmPrePrepareLocked(Mtm, MtmTx[p], sysTime, sent)
            IN /\ Mtm' = r.M
               /\ IF r.locked
                  THEN Step(p, r.x, "locked") /\ UNCHANGED twophase
                  ELSE /\ Step(p, r.x, "prepared")
                       /\ twophase' = [twophase EXCEPT ![XidOf(p)] = "prepared"]
         /\ Ran("MtmPrePrepareTransaction", XidOf(p))
    /\ UNCHANGED <<clockVars, MtmIsRecoverySession, nConfigChanges, voteWait, vis, XactIsoLevel, MtmStateLock, nodeCall, gc, sub, dl, cfg, receiver>>

\* MtmPostPrepareTransaction up to the first sleep of the coordinator, or to
\* its end when the caller does not wait.
PostPrepare ==
    /\ \E p \in Procs :
         /\ pc[p] = "prepared"
         /\ LET r == MtmPostPrepareTransaction(Mtm, MtmTx[p])
                d == MtmPostPrepareResult(Mtm, MtmTx[p], Mtm.nConfigChanges)
            IN IF ~r.wait
               THEN /\ Mtm' = r.M /\ Step(p, r.x, "finish")
                    /\ UNCHANGED <<nConfigChanges, voteWait>>
               ELSE /\ nConfigChanges' = [nConfigChanges EXCEPT ![p] = Mtm.nConfigChanges]
                    /\ voteWait' = [voteWait EXCEPT ![p] =
                           [start |-> sysTime,
                            transTimeout |-> MtmTransTimeout(Mtm.xid2state[MtmTx[p].xid])]]
                    /\ IF MtmVotingGoesOn(Mtm, MtmTx[p].xid, Mtm.nConfigChanges, FALSE)
                       THEN Mtm' = Mtm /\ Step(p, MtmTx[p], "voting")
                       ELSE Mtm' = d.M /\ Step(p, d.x, "finish")
         /\ Ran("MtmPostPrepareTransaction", XidOf(p))
    /\ UNCHANGED <<clockVars, MtmIsRecoverySession, twophase, vis, XactIsoLevel, MtmStateLock, nodeCall, gc, sub, dl, cfg, receiver>>

\* The coordinator wakes up, finds the loop condition false and decides.
Decide ==
    /\ \E p \in Procs, expired \in BOOLEAN :
         /\ pc[p] = "voting"
         /\ ~MtmVotingGoesOn(Mtm, MtmTx[p].xid, nConfigChanges[p], expired)
         /\ LET d == MtmPostPrepareResult(Mtm, MtmTx[p], nConfigChanges[p])
            IN Mtm' = d.M /\ Step(p, d.x, "finish")
         /\ Ran("MtmPostPrepareTransaction", XidOf(p))
    /\ UNCHANGED <<clockVars, MtmIsRecoverySession, twophase, nConfigChanges, voteWait, vis, XactIsoLevel, MtmStateLock, nodeCall, gc, sub, dl, cfg, receiver>>

\* FinishPreparedTransaction of the engine: the prepared transaction gid is
\* committed or rolled back; ok is FALSE when there is none of that name.
FinishPreparedTransaction(tp, gid, isCommit) ==
    IF gid # 0 /\ tp[gid] = "prepared"
    THEN [tp |-> [tp EXCEPT ![gid] = IF isCommit THEN "committed" ELSE "aborted"],
          ok |-> TRUE]
    ELSE [tp |-> tp, ok |-> FALSE]

\* Backend: the rest of MtmTwoPhaseCommit after the prepare, and the commit or
\* the abort of the transaction that ran it. StartTransactionCommand runs
\* MtmBeginTransaction, which raises an error when the node is not online.
B_Finish ==
    /\ pc["B"] = "finish"
    /\ LET b == MtmBeginTransaction(Mtm, MtmTx["B"], sysTime, TRUE)
           aborted == b.x.status = "ABORTED"
           f == FinishPreparedTransaction(twophase, b.x.gid, ~aborted)
           a == IF aborted /\ f.ok THEN MtmAbortPreparedTransaction(b.M, b.x)
                ELSE [M |-> b.M, x |-> b.x]
           e == MtmEndTransaction(a.M, a.x, b.ok /\ f.ok /\ ~aborted, sysTime)
       IN /\ twophase' = IF b.ok THEN f.tp ELSE twophase
          /\ Mtm' = e.M
          /\ Step("B", e.x, "done")
    /\ Ran("MtmTwoPhaseCommit", XidOf("B"))
    /\ UNCHANGED <<clockVars, MtmIsRecoverySession, nConfigChanges, voteWait, vis, XactIsoLevel, MtmStateLock, nodeCall, gc, sub, dl, cfg, receiver>>

\* Applier: process_remote_begin. A transaction of a recovery stream comes
\* with an invalid xid in its gtid.
W_Begin ==
    /\ pc["W"] = "idle"
    /\ Mtm.csn < MaxCsn
    /\ \E node \in {MtmNodes}, gxid \in {InvalidTransactionId, MaxXid}, snapshot \in Snapshots :
         LET b == MtmBeginTransaction(Mtm, MtmTx["W"], sysTime, FALSE)
             j == MtmJoinTransaction(b.M, b.x, "W", node, gxid, snapshot, sysTime)
         IN /\ Mtm' = j.M
            /\ Step("W", j.x, "active")
    /\ Ran("MtmJoinTransaction", XidOf("W"))
    /\ UNCHANGED <<clockVars, MtmIsRecoverySession, twophase, nConfigChanges, voteWait, vis, XactIsoLevel, MtmStateLock, nodeCall, gc, sub, dl, cfg, receiver>>

\* Applier: applying a change fails, the transaction is aborted.
W_Abort ==
    /\ pc["W"] = "active"
    /\ LET e == MtmEndTransaction(Mtm, MtmTx["W"], FALSE, sysTime)
       IN Mtm' = e.M /\ Step("W", e.x, "done")
    /\ Ran("MtmEndTransaction", XidOf("W"))
    /\ UNCHANGED <<clockVars, MtmIsRecoverySession, twophase, nConfigChanges, voteWait, vis, XactIsoLevel, MtmStateLock, nodeCall, gc, sub, dl, cfg, receiver>>

\* Applier: process_remote_commit of a COMMIT PREPARED record with its CSN.
\* caughtUp is the flag the donor sets at the end of a recovery stream.
W_CommitPrepared ==
    /\ pc["W"] = "finish"
    /\ \E csn \in RemoteCsns, caughtUp \in BOOLEAN :
         /\ caughtUp => Mtm.status = "RECOVERY"
         /\ LET b == MtmBeginTransaction(Mtm, MtmTx["W"], sysTime, FALSE)
                x1 == MtmSetCurrentTransactionGID(
                          MtmSetCurrentTransactionCSN(b.x, csn), XidOf("W"))
                f == FinishPreparedTransaction(twophase, x1.gid, TRUE)
                e == MtmEndTransaction(b.M, x1, f.ok, sysTime)
            IN /\ twophase' = f.tp
               /\ Mtm' = IF f.ok /\ caughtUp THEN MtmRecoveryCompleted(e.M) ELSE e.M
               /\ Step("W", e.x, "done")
    /\ Ran("PGLOGICAL_COMMIT_PREPARED", XidOf("W"))
    /\ UNCHANGED <<clockVars, MtmIsRecoverySession, nConfigChanges, voteWait, vis, XactIsoLevel, MtmStateLock, nodeCall, gc, sub, dl, cfg, receiver>>

\* Applier: process_remote_commit of an ABORT PREPARED record.
W_AbortPrepared ==
    /\ pc["W"] = "finish"
    /\ \E caughtUp \in BOOLEAN :
         /\ caughtUp => Mtm.status = "RECOVERY"
         /\ IF MtmGetGlobalTransactionStatus(Mtm, XidOf("W")) # "ABORTED"
            THEN LET b == MtmBeginTransaction(Mtm, MtmTx["W"], sysTime, FALSE)
                     x1 == MtmSetCurrentTransactionGID(b.x, XidOf("W"))
                     f == FinishPreparedTransaction(twophase, x1.gid, FALSE)
                     a == IF f.ok THEN MtmAbortPreparedTransaction(b.M, x1)
                          ELSE [M |-> b.M, x |-> x1]
                     e == MtmEndTransaction(a.M, a.x, f.ok, sysTime)
                 IN /\ twophase' = f.tp
                    /\ Mtm' = IF f.ok /\ caughtUp THEN MtmRecoveryCompleted(e.M) ELSE e.M
                    /\ Step("W", e.x, "done")
            ELSE /\ twophase' = twophase
                 /\ Mtm' = IF caughtUp THEN MtmRecoveryCompleted(Mtm) ELSE Mtm
                 /\ Step("W", MtmTx["W"], "done")
    /\ Ran("PGLOGICAL_ABORT_PREPARED", XidOf("W"))
    /\ UNCHANGED <<clockVars, MtmIsRecoverySession, nConfigChanges, voteWait, vis, XactIsoLevel, MtmStateLock, nodeCall, gc, sub, dl, cfg, receiver>>

\* Arbiter: a queued vote of this node is sent to its coordinator.
ArbiterSend ==
    /\ \E xid \in Xids :
         /\ Mtm.xid2state[xid].queued
         /\ Mtm' = MtmArbiterSend(Mtm, xid)
         /\ Ran("MtmTransSender", xid)
    /\ UNCHANGED <<clockVars, MtmIsRecoverySession, txVars>>

\* Arbiter: READY of an enabled peer arrives for a transaction this node
\* coordinates, has prepared and has replicated to its peers.
ArbiterReady ==
    /\ Mtm.csn < MaxCsn
    /\ \E xid \in Xids, n \in Others, csn \in RemoteCsns :
         /\ Mtm.xid2state[xid].used
         /\ MtmIsCoordinator(Mtm.xid2state[xid])
         /\ ~Mtm.xid2state[xid].isLocal
         /\ twophase[xid] = "prepared"
         /\ ~Mtm.xid2state[xid].votingCompleted
         /\ n \notin Mtm.disabledNodeMask
         /\ n \notin Mtm.xid2state[xid].voters
         /\ Mtm' = MtmArbiterReady(Mtm, xid, n, csn, sysTime)
         /\ Ran("MtmTransReceiver", xid)
    /\ UNCHANGED <<clockVars, MtmIsRecoverySession, txVars>>

\* Arbiter: ABORTED of a peer arrives for such a transaction.
ArbiterAborted ==
    /\ \E xid \in Xids :
         /\ Mtm.xid2state[xid].used
         /\ MtmIsCoordinator(Mtm.xid2state[xid])
         /\ ~Mtm.xid2state[xid].isLocal
         /\ twophase[xid] = "prepared"
         /\ ~Mtm.xid2state[xid].votingCompleted
         /\ Mtm' = MtmArbiterAborted(Mtm, xid)
         /\ Ran("MtmTransReceiverAborted", xid)
    /\ UNCHANGED <<clockVars, MtmIsRecoverySession, txVars>>

\* The coordinator: the backend, the votes that reach it, and the handlers
\* that change the membership while it collects them.
NextCoord ==
    \/ B_Begin \/ B_Write \/ B_Commit \/ PrePrepare \/ PostPrepare \/ Decide
    \/ B_Finish \/ ArbiterReady \/ ArbiterAborted
    \/ OnNodeDisconnect \/ ReplicationStartupHook \/ StartRecovery

SpecCoord == InitTx /\ [][NextCoord]_vars

\* The backend and the applier side by side on a node that may fall into
\* recovery.
NextTx ==
    \/ B_Begin \/ B_Write \/ B_Commit \/ PrePrepare \/ PostPrepare \/ Decide
    \/ B_Finish \/ W_Begin \/ W_Abort \/ W_CommitPrepared \/ W_AbortPrepared
    \/ ArbiterSend \/ ArbiterReady \/ ArbiterAborted \/ StartRecovery

SpecTx == InitTx /\ [][NextTx]_vars

\* The applier on a node that enters and leaves recovery.
NextApply ==
    \/ PrePrepare \/ PostPrepare
    \/ W_Begin \/ W_Abort \/ W_CommitPrepared \/ W_AbortPrepared
    \/ ArbiterSend \/ StartRecovery \/ GetReplicationMode \/ RecoveryCompleted

SpecApply == InitTx /\ [][NextApply]_vars

\* --------------------------------------------------------------- C1: quorum
\* The state of the transaction of the backend, and the moment its
\* MtmPostPrepareTransaction has just returned from the coordinator's branch.
TsB == Mtm.xid2state[XidOf("B")]

Decided ==
    /\ last = [op |-> "MtmPostPrepareTransaction", node |-> XidOf("B")]
    /\ pc["B"] = "finish"
    /\ MtmTx["B"].isPrepared

\* What MtmTwoPhaseCommit tests to go on to COMMIT PREPARED.
Succeeded == MtmTx["B"].status # "ABORTED"

\* C1 as stated: the PREPARE of the coordinator succeeds if and only if every
\* node that is not disabled when it decides has acknowledged.
C1_SucceedsIffEnabledAcked ==
    Decided => (Succeeded <=> (Others \ Mtm.disabledNodeMask) \subseteq TsB.voters)

\* C1 amended: the PREPARE succeeds if and only if the voting was completed
\* (the acknowledgements reached the live-node count), the transaction was not
\* aborted, and nConfigChanges still has the value read before the wait; a
\* change of the configuration ends the wait, and it aborts the transaction
\* instead of counting the votes again.
C1_SucceedsIffVotedAndConfigUnchanged ==
    /\ Decided =>
         (Succeeded <=> /\ TsB.status # "ABORTED"
                        /\ TsB.votingCompleted
                        /\ nConfigChanges["B"] = Mtm.nConfigChanges)
    /\ (pc["B"] = "voting" /\ nConfigChanges["B"] # Mtm.nConfigChanges)
          => ~MtmVotingGoesOn(Mtm, XidOf("B"), nConfigChanges["B"], FALSE)

\* C1 witness: a node was disabled while the votes were collected, every node
\* still enabled had acknowledged, and the coordinator has decided to abort.
C1_Witness ==
    /\ Decided
    /\ ~Succeeded
    /\ nConfigChanges["B"] # Mtm.nConfigChanges
    /\ Mtm.disabledNodeMask # {}
    /\ TsB.voters # {}
    /\ (Others \ Mtm.disabledNodeMask) \subseteq TsB.voters
    /\ Mtm.status = "ONLINE"

\* ------------------------------------------------------- C2: the commit CSN
\* The states of committed transactions.
Committed(M, xid) == M.xid2state[xid].used /\ M.xid2state[xid].status = "COMMITTED"

\* The CSN recorded for xid is at least the CSN this node assigned when it
\* prepared xid and at least the CSN of every vote counted for it.
CsnCoversPrepare(M, xid) ==
    /\ M.xid2state[xid].csn >= M.xid2state[xid].prepareCsn
    /\ M.xid2state[xid].csn >= M.xid2state[xid].maxVote

\* The node took part in the voting on xid: it queued its READY vote, or it
\* counted the votes of others as the coordinator.
Participated(M, xid) ==
    M.xid2state[xid].votedIn # "NONE" \/ M.xid2state[xid].voters # {}

\* C2: for every committed transaction this node voted on or collected the
\* votes for, the recorded commit CSN is at least the CSN the node assigned
\* when it prepared the transaction and at least the CSN of every vote
\* counted for it.
C2_CommitCsnCoversPrepare ==
    \A xid \in Xids :
        (Committed(Mtm, xid) /\ Participated(Mtm, xid)) => CsnCoversPrepare(Mtm, xid)

MtmCsnAfterSnapshot_ge(csn, snapshot) == csn >= snapshot

\* The first test of MtmXidInMVCCSnapshot on a state it found.
MtmCsnAfterSnapshot(csn, snapshot) == csn > snapshot

\* A slip of the last test, the one DtmXidInMVCCSnapshot uses for its own
\* statuses: everything not aborted is shown.
MtmInvisibleByStatus_aborted(status) == status = "ABORTED"

\* The last test of MtmXidInMVCCSnapshot: only a committed transaction is shown.
MtmInvisibleByStatus(status) == status # "COMMITTED"

\* A slip of the back-off: the delay is doubled without a cap.
MtmNextDelay_nocap(delay) == delay * 2

\* The back-off of MtmXidInMVCCSnapshot after a sleep of delay microseconds.
MtmNextDelay(delay) == IF delay * 2 <= MAX_WAIT_TIMEOUT THEN delay * 2 ELSE delay

\* One pass of the loop of MtmXidInMVCCSnapshot for xid, made under the lock
\* by a backend whose MtmTx.snapshot is snapshot. The answer "invisible" is
\* the return value true, "visible" is false; "local" stands for the call of
\* PgXidInMVCCSnapshot for an xid that has no state, "error" for the elog
\* after MAX_WAIT_LOOPS passes.
MtmXidInMVCCSnapshot(M, v, xid, snapshot) ==
    LET ts == M.xid2state[xid] IN
    IF ~ts.used THEN [v EXCEPT !.pc = "done", !.result = "local"]
    ELSE IF MtmCsnAfterSnapshot(ts.csn, snapshot)
         THEN [v EXCEPT !.pc = "done", !.result = "invisible"]
         ELSE IF ts.status = "UNKNOWN"
              THEN LET d == MtmNextDelay(v.delay)
                   IN IF v.i + 1 < MAX_WAIT_LOOPS
                      THEN [v EXCEPT !.i = @ + 1, !.delay = d]
                      ELSE [v EXCEPT !.i = @ + 1, !.delay = d,
                                     !.pc = "done", !.result = "error"]
              ELSE [v EXCEPT !.pc = "done",
                             !.result = IF MtmInvisibleByStatus(ts.status)
                                        THEN "invisible" ELSE "visible"]

\* Backend: a tuple written by the transaction the applier applies is met by
\* a scan, MtmXidInMVCCSnapshot is entered.
VisEnter ==
    /\ pc["B"] = "active"
    /\ vis.pc # "loop"
    /\ vis' = [NoCheck EXCEPT !.pc = "loop"]
    /\ Ran("HeapTupleSatisfiesMVCC", XidOf("W"))
    /\ UNCHANGED <<Mtm, clockVars, MtmIsRecoverySession, MtmTx, pc, twophase, nConfigChanges,
                   voteWait, receiver, XactIsoLevel, MtmStateLock, nodeCall, gc, sub, dl, cfg>>

\* Backend: one pass of the loop, after the sleep of the pass before.
VisPass ==
    /\ vis.pc = "loop"
    /\ vis' = MtmXidInMVCCSnapshot(Mtm, vis, XidOf("W"), MtmTx["B"].snapshot)
    /\ Ran("MtmXidInMVCCSnapshot", XidOf("W"))
    /\ UNCHANGED <<Mtm, clockVars, MtmIsRecoverySession, MtmTx, pc, twophase, nConfigChanges,
                   voteWait, receiver, XactIsoLevel, MtmStateLock, nodeCall, gc, sub, dl, cfg>>

\* A backend that reads beside the applier, which prepares, votes and finishes
\* the transaction whose tuples the backend meets.
NextVis ==
    \/ B_Begin \/ VisEnter \/ VisPass
    \/ W_Begin \/ W_Abort \/ PrePrepare \/ PostPrepare \/ ArbiterSend
    \/ W_CommitPrepared \/ W_AbortPrepared

SpecVis == InitTx /\ [][NextVis]_vars

\* The state of the transaction the applier applies, and the moment
\* MtmXidInMVCCSnapshot has just returned to the backend.
TsW == Mtm.xid2state[XidOf("W")]

Answered ==
    /\ vis.pc = "done"
    /\ last = [op |-> "MtmXidInMVCCSnapshot", node |-> XidOf("W")]

C4_VisibleOnlyWhenCommitted ==
    /\ []((Answered /\ vis.result = "visible") => Committed(Mtm, XidOf("W")))
    /\ [][(/\ vis.pc = "loop"
           /\ last'.op = "MtmXidInMVCCSnapshot"
           /\ TsW.used
           /\ TsW.status = "UNKNOWN"
           /\ TsW.csn <= MtmTx["B"].snapshot)
            => /\ vis'.i = vis.i + 1
               /\ vis'.result \in {"none", "error"}
               /\ vis'.result = "none" <=> vis'.pc = "loop"
               /\ vis'.result = "error" <=> vis'.i = MAX_WAIT_LOOPS]_vars

\* C4 witness: the backend has slept on the transaction in doubt, has read
\* again after the commit, and has answered that it is visible.
C4_Witness ==
    /\ Answered
    /\ vis.i > 0
    /\ vis.delay > MIN_WAIT_TIMEOUT
    /\ vis.result = "visible"
    /\ Committed(Mtm, XidOf("W"))

\* ------------------------------------------- C11: abort of a prepared transaction
\* C11: a participant that applies ABORT PREPARED for a transaction it has
\* prepared and entered under its gid records that transaction as aborted,
\* whatever the status of the node, recovery included.
C11_AbortPreparedRecordsAborted ==
    [][(/\ last'.op = "PGLOGICAL_ABORT_PREPARED"
        /\ twophase[XidOf("W")] = "prepared"
        /\ Mtm.gid2state[XidOf("W")] = XidOf("W"))
         => Mtm'.xid2state[XidOf("W")].status = "ABORTED"]_vars

\* ------------------------------------------------- C12: the recovery slot
\* The receivers of a node that connects, is cut off, recovers from a donor
\* and comes back.
NextRecovery ==
    \/ ArbiterConnected \/ OnNodeDisconnect \/ RefreshClusterStatus
    \/ ReceiverStarted \/ StartRecovery \/ RecoveryCompleted
    \/ GetReplicationMode \/ ReplicationModeSleep \/ ReplicationModeReturn

SpecRecovery == InitMembers /\ [][NextRecovery]_vars

\* The receivers whose last call of MtmGetReplicationMode returned
\* REPLMODE_RECOVERY and that have not called it again since.
RecoveryReceivers == {n \in Others : receiver[n].mode = "REPLMODE_RECOVERY"}

\* C12: while the status is RECOVERY at most one receiver is in recovery
\* mode, the one of the recovery slot, and a receiver that waits in
\* MtmGetReplicationMode without getting the slot stays inside until the
\* status is CONNECTED or ONLINE.
C12_OneRecoveryReceiver ==
    /\ [](Mtm.status = "RECOVERY"
            => /\ Cardinality(RecoveryReceivers) <= 1
               /\ Mtm.recoverySlot # 0 => RecoveryReceivers \subseteq {Mtm.recoverySlot})
    /\ [][\A n \in Others :
            (receiver[n].pc = "waiting" /\ receiver'[n].pc = "out")
               => \/ /\ receiver'[n].mode = "REPLMODE_RECOVERY"
                     /\ Mtm'.recoverySlot = n
                  \/ /\ receiver'[n].mode \in {"REPLMODE_RECOVERED", "REPLMODE_NORMAL"}
                     /\ Mtm.status \in {"CONNECTED", "ONLINE"}]_vars

\* ------------------------------------------ C13, C14: catch-up of a recovering peer
\* This node as the donor of a peer: the backend runs its transaction while a
\* wal-sender streams to the disabled peer, locks the cluster when the peer
\* has almost caught up and enables it when it has.
NextCatchUp ==
    \/ B_Begin \/ B_Write \/ PrePrepare \/ PrePrepareRetry \/ PostPrepare \/ Decide
    \/ B_Finish \/ ArbiterReady \/ ReplicationStartupHook \/ RecoveryCaughtUp

SpecCatchUp == InitTx /\ [][NextCatchUp]_vars

\* The peers a wal-sender of this node serves in a recovery session.
Recovering == {n \in Others : n \in Mtm.disabledNodeMask /\ MtmIsRecoverySession[n]}

NextLock ==
    \/ B_Begin \/ B_Write \/ W_Begin \/ PrePrepare \/ PrePrepareRetry
    \/ ReplicationStartupHook \/ RecoveryCaughtUp

SpecLock == InitTx /\ [][NextLock]_vars

\* What MtmPrePrepareTransaction gives for the transaction the applier has
\* begun, whatever the inputs of the handler.
ReplicatedGoesOn ==
    \A refresh \in BOOLEAN, clique \in SUBSET Nodes \ {{}},
       sent \in SUBSET Mtm.walSenderLockerMask :
        LET r == MtmPrePrepareTransaction(
                     Mtm, MtmSetCurrentTransactionGID(MtmTx["W"], XidOf("W")), "W",
                     sysTime, refresh, clique, sent)
        IN r.ok /\ ~r.locked /\ r.x.isPrepared

\* C14: a transaction that began on this node leaves MtmPrePrepareTransaction
\* prepared only with walSenderLockerMask empty, and while the mask is not
\* empty it sleeps in MtmCheckClusterLock with no state created; the
\* transaction the applier executes is prepared whatever the mask.
C14_LockBlocksOwnTransactions ==
    /\ [][(last' = [op |-> "MtmPrePrepareTransaction", node |-> XidOf("B")]
           /\ pc'["B"] = "prepared")
            => Mtm'.walSenderLockerMask = {}]_vars
    /\ [](pc["B"] = "locked"
            => /\ ~MtmTx["B"].isPrepared
               /\ ~Mtm.xid2state[XidOf("B")].used
               /\ twophase[XidOf("B")] = "none")
    /\ [][(pc["B"] = "locked" /\ Mtm'.walSenderLockerMask # {}) => pc'["B"] = "locked"]_vars
    /\ []((pc["W"] = "active" /\ Mtm.csn < MaxCsn) => ReplicatedGoesOn)

\* C14 witness: with the cluster locked by a wal-sender the backend sleeps in
\* its pre-prepare, and the applier has just prepared its transaction.
C14_Witness ==
    /\ Mtm.walSenderLockerMask # {}
    /\ pc["B"] = "locked"
    /\ pc["W"] = "prepared"
    /\ last = [op |-> "MtmPrePrepareTransaction", node |-> XidOf("W")]
    /\ Mtm.xid2state[XidOf("W")].used

\* --------------------------------------------- C15: the end of the vote wait
\* WaitLatch of the coordinator has WL_TIMEOUT: the backend wakes up and tests
\* the loop condition again however few votes arrive.
SpecCoordFair == SpecCoord /\ WF_vars(Decide)

\* The coordinator's branch of MtmPostPrepareTransaction returns in this step
\* with the voting not completed or the configuration changed.
EndsWithoutVotes ==
    /\ pc["B"] \in {"prepared", "voting"}
    /\ Decided'
    /\ (~TsB'.votingCompleted \/ nConfigChanges'["B"] # Mtm'.nConfigChanges)

\* C15: a coordinator that waits for votes leaves the wait; when the wait
\* ends with the voting not completed or with nConfigChanges changed the
\* transaction is aborted, and an aborted transaction is never committed
\* afterwards, neither in the state table nor as a prepared transaction.
C15_WaitEndsAndAborts ==
    /\ (pc["B"] = "voting") ~> (pc["B"] = "finish")
    /\ [][EndsWithoutVotes
            => TsB'.status = "ABORTED" /\ MtmTx'["B"].status = "ABORTED"]_vars
    /\ [][(TsB.used /\ TsB.status = "ABORTED")
            => /\ TsB'.status # "COMMITTED"
               /\ twophase'[XidOf("B")] # "committed"]_vars

\* C15 witness: on an online node with the configuration unchanged the wait
\* has ended by the timeout, before the peers voted, and MtmTwoPhaseCommit
\* has rolled the prepared transaction back.
C15_Witness ==
    /\ last = [op |-> "MtmTwoPhaseCommit", node |-> XidOf("B")]
    /\ ~TsB.votingCompleted
    /\ TsB.status = "ABORTED"
    /\ nConfigChanges["B"] = Mtm.nConfigChanges
    /\ Mtm.status = "ONLINE"
    /\ Mtm.disabledNodeMask = {}
    /\ twophase[XidOf("B")] = "aborted"

\* ------------------------------------------- C16: the bounded in-doubt wait
\* The number of passes after which the delay is doubled: the doublings of
\* MIN_WAIT_TIMEOUT that stay within MAX_WAIT_TIMEOUT.
Doublings ==
    CHOOSE k \in 0..MAX_WAIT_LOOPS :
        /\ MIN_WAIT_TIMEOUT * 2^k <= MAX_WAIT_TIMEOUT
        /\ MIN_WAIT_TIMEOUT * 2^(k + 1) > MAX_WAIT_TIMEOUT

\* The delay of the sleep of pass i (the first pass is pass 0).
DelayOfPass(i) == MIN_WAIT_TIMEOUT * 2^(IF i < Doublings THEN i ELSE Doublings)

\* C16: MtmXidInMVCCSnapshot makes at most MAX_WAIT_LOOPS passes, and it ends
\* with the error exactly after MAX_WAIT_LOOPS passes that found the status
\* unknown; the sleep starts at MIN_WAIT_TIMEOUT, is doubled from pass to pass
\* and is never longer than MAX_WAIT_TIMEOUT.
C16_WaitBounded ==
    /\ [](/\ vis.i <= MAX_WAIT_LOOPS
          /\ vis.pc = "loop" => vis.i < MAX_WAIT_LOOPS
          /\ vis.result = "error" <=> (vis.pc = "done" /\ vis.i = MAX_WAIT_LOOPS)
          /\ vis.delay >= MIN_WAIT_TIMEOUT /\ vis.delay <= MAX_WAIT_TIMEOUT
          /\ vis.pc = "loop" => vis.delay = DelayOfPass(vis.i))
    /\ [][(vis.pc = "loop" /\ vis'.i = vis.i + 1)
            => /\ TsW.status = "UNKNOWN"
               /\ vis'.delay \in {vis.delay, 2 * vis.delay}
               /\ vis'.delay = 2 * vis.delay <=> 2 * vis.delay <= MAX_WAIT_TIMEOUT]_vars
    /\ [][(vis.pc = "loop" /\ vis'.pc = "done" /\ vis'.result # "error")
            => vis'.i = vis.i]_vars

\* C16 witness: the status stayed unknown for MAX_WAIT_LOOPS passes, the
\* sleep had reached its longest value, and the call has ended with the error.
C16_Witness ==
    /\ last = [op |-> "MtmXidInMVCCSnapshot", node |-> XidOf("W")]
    /\ vis.result = "error"
    /\ vis.i = MAX_WAIT_LOOPS
    /\ vis.delay = 64 * MIN_WAIT_TIMEOUT
    /\ TsW.status = "UNKNOWN"

\* ------------------------------------- C17: online after the majority is back
\* The step in which the live-node count comes back to the majority on a node
\* that is IN_MINORITY.
RegainsMajority ==
    /\ Mtm.status = "IN_MINORITY"
    /\ Mtm.nLiveNodes < Majority(Mtm)
    /\ Mtm'.nLiveNodes >= Majority(Mtm')

\* C17: a node that has regained the majority becomes ONLINE only with the
\* receivers of all its live peers started, which MtmReceiverStarted measures
\* as nReceivers = nLiveNodes - 1.
C17_OnlineOnlyWithReceivers ==
    [][(RegainsMajority /\ Mtm'.status = "ONLINE")
         => Mtm'.nReceivers >= Mtm'.nLiveNodes - 1]_vars

\* ------------------------------------------- C18: excluded, offline, recovery
\* The monitor keeps refreshing the cluster status and the receivers keep
\* polling in MtmGetReplicationMode; what the peers send is not under the
\* control of this node.
SpecRecoveryFair ==
    /\ SpecRecovery
    /\ WF_vars(RefreshClusterStatus)
    /\ WF_vars(GetReplicationMode)
    /\ WF_vars(ReplicationModeSleep)
    /\ WF_vars(ReplicationModeReturn)

\* MtmRefreshClusterStatus has just put the own bit into disabledNodeMask: the
\* clique the nodes agree on does not hold this node.
FindsItselfExcluded ==
    /\ MtmNodeId \notin Mtm.disabledNodeMask
    /\ MtmNodeId \in Mtm'.disabledNodeMask
    /\ last'.op \in {"MtmRefreshClusterStatus", "MtmOnNodeDisconnect"}

\* C18: an online node that finds itself excluded becomes OFFLINE, and an
\* OFFLINE node eventually enters RECOVERY.
C18_ExcludedGoesOfflineThenRecovers ==
    /\ [][(FindsItselfExcluded /\ Mtm.status = "ONLINE") => Mtm'.status = "OFFLINE"]_vars
    /\ (Mtm.status = "OFFLINE") ~> (Mtm.status = "RECOVERY")

\* ------------------------------------------------ C19: where the quorum ends
\* MtmCheckQuorum has run in this step (MtmRecoveryCaughtUp counts a change of
\* the configuration without it); the own node has not been excluded.
QuorumChecked ==
    /\ Mtm'.nConfigChanges > Mtm.nConfigChanges
    /\ last'.op # "MtmRecoveryCaughtUp"
StaysMember == MtmNodeId \notin Mtm'.disabledNodeMask

MtmProcessUtility(kind) ==
    CASE kind = "TRANS_STMT_BEGIN" -> "block"
      [] kind = "TRANS_STMT_COMMIT" -> "MtmTwoPhaseCommit"
      [] kind = "TRANS_STMT_PREPARE" -> "ERROR"
      [] kind \in {"TRANS_STMT_COMMIT_PREPARED", "TRANS_STMT_ROLLBACK_PREPARED"} -> "skipCommand"
      [] OTHER -> "standard"

\* Backend: the client ends its transaction block with PREPARE TRANSACTION
\* 'g'. An error of the hook aborts the transaction and nothing is prepared.
B_PrepareTransaction ==
    /\ pc["B"] = "active"
    /\ MtmTx["B"].containsDML
    /\ IF MtmProcessUtility("TRANS_STMT_PREPARE") = "ERROR"
       THEN LET e == MtmEndTransaction(Mtm, MtmTx["B"], FALSE, sysTime)
            IN Mtm' = e.M /\ Step("B", e.x, "done") /\ UNCHANGED twophase
       ELSE /\ Mtm' = Mtm
            /\ Step("B", [MtmTx["B"] EXCEPT !.gid = XidOf("B")], "done")
            /\ twophase' = [twophase EXCEPT ![XidOf("B")] = "prepared"]
    /\ Ran("TRANS_STMT_PREPARE", XidOf("B"))
    /\ UNCHANGED <<clockVars, MtmIsRecoverySession, nConfigChanges, voteWait, vis, XactIsoLevel, MtmStateLock, nodeCall, gc, sub, dl, cfg, receiver>>

\* A client that prepares by hand, beside the applier that receives the
\* prepared transactions of the peers.
NextUtility ==
    \/ B_Begin \/ B_Write \/ B_PrepareTransaction
    \/ W_Begin \/ PrePrepare \/ PostPrepare \/ ArbiterSend
    \/ W_CommitPrepared \/ W_AbortPrepared

SpecUtility == InitTx /\ [][NextUtility]_vars

\* C21: after PREPARE TRANSACTION 'g' of a client the transaction is prepared
\* under that gid (and so can reach the receiving nodes); at a receiving node
\* the applied PREPARE leaves one prepared transaction, and COMMIT PREPARED
\* and ROLLBACK PREPARED leave it committed or rolled back, none prepared.
C21_PreparedByHandIsReplicated ==
    /\ [][last' = [op |-> "TRANS_STMT_PREPARE", node |-> XidOf("B")]
            => twophase'[XidOf("B")] = "prepared"]_vars
    /\ [][(last'.op = "PGLOGICAL_COMMIT_PREPARED" /\ twophase[XidOf("W")] = "prepared")
            => twophase'[XidOf("W")] = "committed"]_vars
    /\ [][(last'.op = "PGLOGICAL_ABORT_PREPARED" /\ twophase[XidOf("W")] = "prepared")
            => twophase'[XidOf("W")] = "aborted"]_vars

\* ------------------------------------------------- C22: a conflict on apply
\* The applier has caught an error while it applied the changes of a
\* transaction of a normal stream (PG_CATCH of MtmExecutor).
ApplyFailed ==
    /\ pc["W"] = "active"
    /\ MtmTx["W"].gtidXid # InvalidTransactionId
    /\ last' = [op |-> "MtmEndTransaction", node |-> XidOf("W")]

\* A backend that commits and an applier whose transaction fails, with the
\* arbiter carrying the votes, on a node that may fall into recovery.
NextConflict ==
    \/ B_Begin \/ B_Write \/ B_Commit \/ PrePrepare \/ PostPrepare \/ Decide
    \/ B_Finish \/ W_Begin \/ W_Abort
    \/ ArbiterSend \/ ArbiterAborted \/ StartRecovery

SpecConflict == InitTx /\ [][NextConflict]_vars

\* C22: an error while a replicated transaction is applied leaves its state
\* ABORTED with an ABORTED vote queued for the coordinator, nothing prepared,
\* and the applier back in its loop; an ABORTED vote that reaches a
\* coordinator aborts the transaction there and ends its vote wait, and the
\* coordinator then rolls back, never commits.
C22_ApplyErrorBecomesAbortVote ==
    /\ [][ApplyFailed
            => /\ TsW'.used /\ TsW'.status = "ABORTED"
               /\ TsW'.queued /\ TsW'.cmd = "MSG_ABORTED"
               /\ TsW'.gtidXid = MtmTx["W"].gtidXid
               /\ twophase'[XidOf("W")] = "none"
               /\ pc'["W"] = "done"
               /\ MtmTx'["W"] = MtmResetTransaction(MtmTx["W"])]_vars
    /\ [][last'.op = "MtmTransReceiverAborted"
            => /\ Mtm'.xid2state[last'.node].status = "ABORTED"
               /\ Mtm'.xid2state[last'.node].votingCompleted]_vars
    /\ [](last = [op |-> "MtmTransReceiverAborted", node |-> XidOf("B")]
            => [](twophase[XidOf("B")] # "committed" /\ TsB.status # "COMMITTED"))

\* C22 witness: the applier has aborted the transaction it was applying and
\* the vote is on its way, while the backend of this node goes on.
C22_Witness ==
    /\ last = [op |-> "MtmTransSender", node |-> XidOf("W")]
    /\ TsW.status = "ABORTED"
    /\ TsW.cmd = "MSG_ABORTED"
    /\ ~TsW.queued
    /\ pc["W"] = "done"
    /\ twophase[XidOf("W")] = "none"
    /\ Mtm.status = "ONLINE"

\* ------------------------------------------ C23: the way out of "unknown"
\* C23: a state of the table whose status is UNKNOWN stays in the table and
\* its status stays UNKNOWN or becomes COMMITTED or ABORTED.
C23_UnknownEndsCommittedOrAborted ==
    [][\A xid \in Xids :
         (Mtm.xid2state[xid].used /\ Mtm.xid2state[xid].status = "UNKNOWN")
            => /\ Mtm'.xid2state[xid].used
               /\ Mtm'.xid2state[xid].status \in {"UNKNOWN", "COMMITTED", "ABORTED"}]_vars

\* C23 witness: the applier has committed a prepared transaction whose state
\* was UNKNOWN since its PREPARE.
C23_Witness ==
    /\ last = [op |-> "PGLOGICAL_COMMIT_PREPARED", node |-> XidOf("W")]
    /\ TsW.used
    /\ TsW.status = "COMMITTED"
    /\ twophase[XidOf("W")] = "committed"

\* ------------------------------------------------ C24: commits in CSN order
\* The state of xid becomes COMMITTED in this step.
Commits(xid) ==
    /\ Mtm'.xid2state[xid].used
    /\ Mtm'.xid2state[xid].status = "COMMITTED"
    /\ Mtm.xid2state[xid].status # "COMMITTED"

\* C24: a transaction that commits at this node has a CSN not below the CSN
\* of any transaction that committed here before it.
C24_CommitsFollowCsnOrder ==
    [][\A a, b \in Xids :
         (/\ a # b
          /\ Mtm.xid2state[b].used
          /\ Mtm.xid2state[b].status = "COMMITTED"
          /\ Commits(a))
            => Mtm'.xid2state[a].csn >= Mtm'.xid2state[b].csn]_vars

\* ------------------------------------------------- C25: sync called twice
\* MtmSyncClock(c2) is called right after a call MtmSyncClock(c1) has
\* returned, with c2 <= c1; the wall clock may have moved in between.
SyncAgain ==
    /\ clk.pc = "done"
    /\ Mtm.csn < MaxCsn
    /\ \E c \in 0..clk.arg :
         /\ Mtm' = MtmSyncClock(Mtm, sysTime, c)
         /\ clk' = [clk EXCEPT !.pc = "again", !.arg = c, !.shift0 = Mtm.timeShift,
                               !.lastRet = Mtm'.csn,
                               !.prevMax = Max(clk.prevMax, clk.lastRet)]
    /\ UNCHANGED <<sysTime, memberVars, txVars>>

NextSyncTwice == NextClock \/ SyncAgain

SpecSyncTwice == InitClock /\ [][NextSyncTwice]_vars

\* The second call has run in this step.
SyncedAgain == clk.pc = "done" /\ clk'.pc = "again"

\* C25 as stated: a second MtmSyncClock with an argument not above that of
\* the call before it leaves the clock (csn and timeShift) as it was.
C25_SyncAgainChangesNothing ==
    [][SyncedAgain => Mtm' = Mtm]_vars

\* C25 amended: such a second call leaves timeShift as it was and advances
\* csn, to the reading of the clock or by one, whichever is larger; the value
\* it returns is not below its argument.
C25_SyncAgainKeepsShift ==
    [][SyncedAgain
         => /\ Mtm'.timeShift = Mtm.timeShift
            /\ Mtm'.csn = Max(MtmGetCurrentTime(Mtm, sysTime), Mtm.csn + 1)
            /\ Mtm'.csn >= clk'.arg
            /\ Mtm' = [Mtm EXCEPT !.csn = Mtm'.csn]]_vars

\* C25 witness: a first call has shifted the clock, the wall clock was then
\* stepped back, and the same argument has been synced again.
C25_Witness ==
    /\ clk.pc = "again"
    /\ clk.arg > 0
    /\ Mtm.timeShift > 0
    /\ Mtm.timeShift = clk.shift0
    /\ sysTime = 0
    /\ Mtm.csn > clk.arg

\* ----------------------------------------------- C26: the PREPARE timeout
\* Half of the minimal timeout, the leap of the wall clock below.
LeapUsec == MSEC_TO_USEC(Mtm2PCMinTimeout) \div 2

\* A microsecond passes; only a few in a row, to keep the readings few.
TimeTick ==
    /\ sysTime % LeapUsec < MaxTime
    /\ sysTime' = sysTime + 1
    /\ UNCHANGED <<Mtm, clk, memberVars, txVars>>

\* Half a millisecond passes.
TimeLeap ==
    /\ sysTime \div LeapUsec < MaxLeaps
    /\ sysTime' = sysTime + LeapUsec
    /\ UNCHANGED <<Mtm, clk, memberVars, txVars>>

\* The coordinator wakes up (latch or MtmHeartbeatRecvTimeout), reads the wall
\* clock, finds the loop condition false and decides.
DecideOnTime ==
    /\ \E p \in Procs :
         /\ pc[p] = "voting"
         /\ ~MtmVotingGoesOn(Mtm, MtmTx[p].xid, nConfigChanges[p],
                             MtmTimeoutExpired(voteWait[p], sysTime))
         /\ LET d == MtmPostPrepareResult(Mtm, MtmTx[p], nConfigChanges[p])
            IN Mtm' = d.M /\ Step(p, d.x, "finish")
         /\ Ran("MtmPostPrepareTransaction", XidOf(p))
    /\ UNCHANGED <<clockVars, MtmIsRecoverySession, twophase, nConfigChanges, voteWait, vis, XactIsoLevel, MtmStateLock, nodeCall, gc, sub, dl, cfg,
                   receiver>>

\* A coordinator whose wait ends by the wall clock, while time passes and the
\* votes of its peers arrive or fail to.
NextTimeout ==
    \/ B_Begin \/ B_Write \/ B_Commit \/ PrePrepare \/ PostPrepare \/ DecideOnTime
    \/ B_Finish \/ ArbiterReady \/ TimeTick \/ TimeLeap

SpecTimeout == InitTx /\ [][NextTimeout]_vars

\* The wait of the backend ends in this step with the transaction aborted,
\* while nothing but the timeout ends it: not all votes are in, the
\* configuration is unchanged, the node is online, nobody aborted it.
TimedOut ==
    /\ pc["B"] = "voting" /\ pc'["B"] = "finish"
    /\ ~TsB.votingCompleted
    /\ nConfigChanges["B"] = Mtm.nConfigChanges
    /\ Mtm.status = "ONLINE"
    /\ TsB.status # "ABORTED"
    /\ TsB'.status = "ABORTED"

\* C26: the timeout a coordinator takes when it starts to wait is the larger
\* of the minimal timeout and prepare-ratio percent of the time from its
\* snapshot to its prepare CSN, and it aborts for the timeout only when more
\* than that has passed on the wall clock since it started to wait.
C26_TimeoutIsMaxOfMinAndRatio ==
    /\ [][(pc["B"] = "prepared" /\ pc'["B"] = "voting")
            => LET L == TsB.prepareCsn - TsB.snapshot
                   byRatio == (L * Mtm2PCPrepareRatio) \div 100
                   least == Mtm2PCMinTimeout * 1000
               IN /\ voteWait'["B"].start = sysTime
                  /\ voteWait'["B"].transTimeout = IF byRatio > least THEN byRatio ELSE least]_vars
    /\ [][TimedOut
            => LET L == TsB.prepareCsn - TsB.snapshot
                   elapsed == sysTime - voteWait["B"].start
               IN /\ elapsed > Mtm2PCMinTimeout * 1000
                  /\ elapsed > (L * Mtm2PCPrepareRatio) \div 100]_vars

\* C26 witness: a transaction that took long to prepare has waited longer
\* than the minimal timeout and is aborted one microsecond after its own
\* timeout.
C26_Witness ==
    /\ last = [op |-> "MtmPostPrepareTransaction", node |-> XidOf("B")]
    /\ pc["B"] = "finish"
    /\ TsB.status = "ABORTED"
    /\ ~TsB.votingCompleted
    /\ nConfigChanges["B"] = Mtm.nConfigChanges
    /\ voteWait["B"].transTimeout > MSEC_TO_USEC(Mtm2PCMinTimeout)
    /\ sysTime = voteWait["B"].start + voteWait["B"].transTimeout + 1

\* ------------------------------------------------------ C27: the debounce
\* Watchdog: no heartbeat from nodeId, with the debounce test made on the
\* wall clock.
OnNodeDisconnectOnTime ==
    /\ Mtm.nConfigChanges < MaxConfigChanges
    /\ \E nodeId \in Others \ Mtm.disabledNodeMask, raftOk \in BOOLEAN,
          clique \in SUBSET Nodes \ {{}} :
         /\ ~(MtmNodeId \in clique /\ nodeId \in clique)
         /\ Mtm' = IF MtmStatusBlinks(Mtm, nodeId, sysTime) THEN Mtm
                   ELSE MtmOnNodeDisconnect(Mtm, nodeId, raftOk, clique)
         /\ Ran("MtmOnNodeDisconnect", nodeId)
    /\ UNCHANGED <<clockVars, MtmIsRecoverySession, txVars>>

\* Handlers that disable and enable nodes, while time passes by half
\* milliseconds.
NextDebounce ==
    \/ ArbiterConnected \/ OnNodeDisconnectOnTime \/ RefreshClusterStatus
    \/ ReceiverStarted \/ TimeLeap

SpecDebounce == InitMembers /\ [][NextDebounce]_vars

\* The bit of node n in disabledNodeMask is changed in this step.
StatusChanged(n) == (n \in Mtm.disabledNodeMask) # (n \in Mtm'.disabledNodeMask)

\* C27: the bit of a node in disabledNodeMask is changed only when at least
\* MtmNodeDisableDelay has passed since the change before it (the stamp the
\* start-up leaves is not taken for a change).
C27_NoChangeWithinDisableDelay ==
    [][\A n \in Others :
         (StatusChanged(n) /\ Mtm.nConfigChanges > 0 /\ Mtm.lastStatusChangeTime[n] > 0)
            => sysTime - Mtm.lastStatusChangeTime[n] >= MSEC_TO_USEC(MtmNodeDisableDelay)]_vars

\* ------------------------------------------------ C28: the isolation level
IsoLevels ==
    {"XACT_READ_UNCOMMITTED", "XACT_READ_COMMITTED", "XACT_REPEATABLE_READ", "XACT_SERIALIZABLE"}

\* What MtmBeginTransaction reports for the isolation level of a transaction:
\* "LOG" is a line in the server log, the transaction goes on.
MtmIsoLevelReport(isDistributed, level) ==
    IF isDistributed /\ level # "XACT_REPEATABLE_READ" THEN "LOG" ELSE "none"

\* Backend: StartTransactionCommand of a user transaction in a session whose
\* isolation level is level.
B_BeginAtLevel ==
    /\ pc["B"] = "idle"
    /\ Mtm.csn < MaxCsn
    /\ \E level \in IsoLevels :
         LET r == MtmBeginTransaction(Mtm, MtmTx["B"], sysTime, TRUE)
             rejected == ~r.ok \/ MtmIsoLevelReport(r.x.isDistributed, level) = "ERROR"
         IN /\ XactIsoLevel' = level
            /\ Mtm' = r.M
            /\ IF rejected
               THEN Step("B", MtmEndTransaction(r.M, r.x, FALSE, sysTime).x, "done")
               ELSE Step("B", r.x, "active")
    /\ Ran("MtmBeginTransaction", XidOf("B"))
    /\ UNCHANGED <<clockVars, MtmIsRecoverySession, twophase, nConfigChanges, voteWait, vis,
                   receiver, MtmStateLock, nodeCall, gc, sub, dl, cfg>>

\* A backend that begins at any isolation level and commits.
NextIso ==
    \/ B_BeginAtLevel \/ B_Write \/ B_Commit \/ PrePrepare \/ PostPrepare \/ Decide
    \/ B_Finish \/ ArbiterReady

SpecIso == InitTx /\ [][NextIso]_vars

\* C28: a user transaction that begins at an isolation level other than
\* repeatable read is rejected: it does not become active.
C28_OnlyRepeatableReadBegins ==
    [][(/\ pc["B"] = "idle"
        /\ last' = [op |-> "MtmBeginTransaction", node |-> XidOf("B")]
        /\ XactIsoLevel' # "XACT_REPEATABLE_READ")
          => pc'["B"] = "done" /\ MtmTx'["B"].status # "IN_PROGRESS"]_vars

\* ----------------------------------------- C29: a non-recoverable error
\* The error codes MtmHandleApplyError singles out, and one it does not.
NonRecoverable ==
    {"ERRCODE_DISK_FULL", "ERRCODE_INSUFFICIENT_RESOURCES", "ERRCODE_IO_ERROR",
     "ERRCODE_DATA_CORRUPTED", "ERRCODE_INDEX_CORRUPTED", "ERRCODE_SYSTEM_ERROR",
     "ERRCODE_INTERNAL_ERROR", "ERRCODE_OUT_OF_MEMORY"}

SqlErrCodes == NonRecoverable \cup {"ERRCODE_UNIQUE_VIOLATION"}

\* MtmHandleApplyError: a WARNING for a non-recoverable code; the switch of
\* the cluster mode and the signal to the postmaster are commented out.
MtmHandleApplyError(M, sqlerrcode) ==
    IF sqlerrcode \in NonRecoverable THEN M ELSE M

\* Applier: applying a change fails with sqlerrcode; PG_CATCH of MtmExecutor
\* aborts the transaction and the applier goes on.
W_ApplyError ==
    /\ pc["W"] = "active"
    /\ \E sqlerrcode \in SqlErrCodes :
         /\ LET e == MtmEndTransaction(Mtm, MtmTx["W"], FALSE, sysTime)
            IN Mtm' = e.M /\ Step("W", e.x, "done")
         /\ Ran(sqlerrcode, XidOf("W"))
    /\ UNCHANGED <<clockVars, MtmIsRecoverySession, twophase, nConfigChanges, voteWait, vis,
                   XactIsoLevel, MtmStateLock, nodeCall, gc, sub, dl, cfg, receiver>>

\* MtmHandleApplyError is run for the error just caught.
HandleApplyError ==
    /\ last.op \in SqlErrCodes
    /\ Mtm' = MtmHandleApplyError(Mtm, last.op)
    /\ Ran("MtmHandleApplyError", last.node)
    /\ UNCHANGED <<clockVars, MtmIsRecoverySession, txVars>>

\* The applier, with errors of every kind in what it applies.
NextApplyError ==
    \/ W_Begin \/ W_ApplyError \/ HandleApplyError \/ PrePrepare \/ PostPrepare
    \/ ArbiterSend \/ W_CommitPrepared \/ W_AbortPrepared

SpecApplyError == InitTx /\ [][NextApplyError]_vars

\* C29: once a non-recoverable error of the applier has been handled the
\* status of the node is OUT_OF_SERVICE.
C29_NonRecoverableErrorPutsOutOfService ==
    [][(last.op \in NonRecoverable /\ last'.op = "MtmHandleApplyError")
         => Mtm'.status = "OUT_OF_SERVICE"]_vars

\* --------------------------------------- C30: the active-transactions count
\* The transactions past MtmPrePrepareTransaction (a CSN was assigned at
\* prepare) whose state is neither COMMITTED nor ABORTED.
ActiveTransactions ==
    {xid \in Xids : /\ MtmInTransList(Mtm.xid2state[xid])
                    /\ Mtm.xid2state[xid].status \in {"IN_PROGRESS", "UNKNOWN"}}

\* C30: nActiveTransactions is the number of transactions past pre-prepare
\* and not yet committed or aborted; in particular it is never negative and
\* is zero when there is none.
C30_CounterCountsActiveTransactions ==
    /\ Mtm.nActiveTransactions = Cardinality(ActiveTransactions)
    /\ Mtm.nActiveTransactions >= 0

\* ------------------------------ C31: no way to ONLINE around the recovery
\* The membership handlers without the completion of recovery: no step of
\* this specification is MtmRecoveryCompleted, so a node that is in RECOVERY
\* or OFFLINE never completes its recovery.
NextUnrecovered ==
    \/ ArbiterConnected \/ OnNodeDisconnect \/ RefreshClusterStatus
    \/ ReceiverStarted \/ GetReplicationMode \/ ReplicationStartupHook
    \/ RecoveryCaughtUp \/ CheckClusterLock \/ StartRecovery \/ DropNode

SpecUnrecovered == InitMembers /\ [][NextUnrecovered]_vars

\* The cluster status is refreshed again and again: by every pre-prepare
\* while a node is disabled and after every disconnect.
SpecUnrecoveredFair == SpecUnrecovered /\ WF_vars(RefreshClusterStatus)

\* C31: a node whose status is RECOVERY or OFFLINE does not become ONLINE as
\* long as its recovery is not completed; here it never is, so the node is
\* never ONLINE again.
C31_OnlineOnlyThroughRecovery ==
    [](Mtm.status \in {"RECOVERY", "OFFLINE"} => [](Mtm.status # "ONLINE"))

\* --------------------------------------------- C32: the count of live nodes
\* The nodes other than this one whose bit is set in disabledNodeMask.
DisabledOthers == Mtm.disabledNodeMask \ {MtmNodeId}

\* C32: nLiveNodes is the number of nodes less the disabled other nodes, and
\* is never more than the number of nodes.
C32_LiveNodesMatchDisabledMask ==
    /\ Mtm.nLiveNodes = Mtm.nAllNodes - Cardinality(DisabledOthers)
    /\ Mtm.nLiveNodes <= Mtm.nAllNodes

\* ------------------------------------ C33: the state lock and network I/O
\* MtmLock and MtmUnlock of the process u.
MtmLockFree == \A u \in LockUsers : MtmStateLock[u] = "none"

MtmLock(u, mode) == [MtmStateLock EXCEPT ![u] = mode]

MtmUnlock(u) == [MtmStateLock EXCEPT ![u] = "none"]

\* MtmBroadcastUtilityStmt connects to the nodes enabled when it starts. What
\* its caller waits for: the reply of the connection to this node among
\* them, or those of the peers only.
MtmBroadcastIo(M) ==
    IF Nodes \ M.disabledNodeMask = {} THEN "none"
    ELSE IF MtmNodeId \notin M.disabledNodeMask THEN "self" ELSE "peers"

\* The node ids a user passes to mtm.drop_node and mtm.recover_node: those of
\* the cluster and one above them.
NodeIds == 1..(MtmNodes + 1)

\* mtm.drop_node(nodeId) of a user backend, up to the broadcast: the lock is
\* taken, a disabled node ends the call, an id above nLiveNodes raises an
\* error, an enabled node is disabled and the statement is broadcast.
DropNodeCall ==
    /\ nodeCall.pc = "idle"
    /\ MtmLockFree
    /\ Mtm.nConfigChanges < MaxConfigChanges
    /\ \E nodeId \in NodeIds :
         /\ IF nodeId \in Mtm.disabledNodeMask
            THEN /\ Mtm' = Mtm
                 /\ nodeCall' = [fn |-> "drop", pc |-> "returned", nodeId |-> nodeId,
                                 io |-> "none", err |-> "none"]
                 /\ UNCHANGED MtmStateLock
            ELSE IF nodeId > Mtm.nLiveNodes
                 THEN /\ Mtm' = Mtm
                      /\ nodeCall' = [fn |-> "drop", pc |-> "error", nodeId |-> nodeId,
                                      io |-> "none", err |-> "out of range"]
                      /\ UNCHANGED MtmStateLock
                 ELSE LET M1 == MtmDropNode(Mtm, nodeId)
                          io == MtmBroadcastIo(M1)
                      IN /\ Mtm' = M1
                         /\ nodeCall' = [fn |-> "drop", nodeId |-> nodeId, io |-> io,
                                         pc |-> IF io = "none" THEN "sent" ELSE "exec",
                                         err |-> "none"]
                         /\ MtmStateLock' = MtmLock("admin", "LW_EXCLUSIVE")
         /\ Ran("MtmDropNode", nodeId)
    /\ UNCHANGED <<clockVars, MtmIsRecoverySession, MtmTx, pc, twophase, nConfigChanges, vis,
                   receiver, voteWait, XactIsoLevel, gc, sub, dl, cfg>>

\* mtm.recover_node(nodeId) of a user backend, up to the broadcast; the state
\* lock is not taken.
RecoverNodeCall ==
    /\ nodeCall.pc = "idle"
    /\ \E nodeId \in NodeIds :
         /\ LET io == MtmBroadcastIo(Mtm)
            IN nodeCall' =
                 [fn |-> "recover", nodeId |-> nodeId,
                  err |-> IF nodeId > Mtm.nLiveNodes THEN "out of range"
                          ELSE IF nodeId \notin Mtm.disabledNodeMask THEN "was not disabled"
                          ELSE "none",
                  io |-> IF nodeId > Mtm.nLiveNodes \/ nodeId \notin Mtm.disabledNodeMask
                         THEN "none" ELSE io,
                  pc |-> IF nodeId > Mtm.nLiveNodes \/ nodeId \notin Mtm.disabledNodeMask
                         THEN "error"
                         ELSE IF io = "none" THEN "returned" ELSE "exec"]
         /\ Ran("MtmRecoverNode", nodeId)
    /\ UNCHANGED <<Mtm, clockVars, MtmIsRecoverySession, MtmTx, pc, twophase, nConfigChanges,
                   vis, receiver, voteWait, XactIsoLevel, MtmStateLock, gc, sub, dl, cfg>>

\* The backend that serves the connection of the broadcast to this node runs
\* BEGIN TRANSACTION: MtmBeginTransaction takes the state lock in exclusive
\* mode. The statement and the commit follow, and the connection has answered.
ConnServe ==
    /\ nodeCall.pc = "exec"
    /\ nodeCall.io = "self"
    /\ MtmLockFree
    /\ nodeCall' = [nodeCall EXCEPT !.io = "peers"]
    /\ Ran("MtmBroadcastUtilityStmt", MtmNodeId)
    /\ UNCHANGED <<Mtm, clockVars, MtmIsRecoverySession, MtmTx, pc, twophase, nConfigChanges,
                   vis, receiver, voteWait, XactIsoLevel, MtmStateLock, gc, sub, dl, cfg>>

\* The caller of MtmBroadcastUtilityStmt has the replies of all connections.
BroadcastDone ==
    /\ nodeCall.pc = "exec"
    /\ nodeCall.io = "peers"
    /\ nodeCall' = [nodeCall EXCEPT !.io = "none",
                                    !.pc = IF nodeCall.fn = "drop" THEN "sent" ELSE "returned"]
    /\ Ran("MtmBroadcastUtilityStmt", 0)
    /\ UNCHANGED <<Mtm, clockVars, MtmIsRecoverySession, MtmTx, pc, twophase, nConfigChanges,
                   vis, receiver, voteWait, XactIsoLevel, MtmStateLock, gc, sub, dl, cfg>>

\* The end of MtmDropNode: MtmUnlock.
DropNodeUnlock ==
    /\ nodeCall.pc = "sent"
    /\ nodeCall' = [nodeCall EXCEPT !.pc = "returned"]
    /\ MtmStateLock' = MtmUnlock("admin")
    /\ Ran("MtmUnlock", nodeCall.nodeId)
    /\ UNCHANGED <<Mtm, clockVars, MtmIsRecoverySession, MtmTx, pc, twophase, nConfigChanges,
                   vis, receiver, voteWait, XactIsoLevel, gc, sub, dl, cfg>>

\* The backend goes on to its next statement.
NodeCallEnd ==
    /\ nodeCall.pc \in {"returned", "error"}
    /\ nodeCall' = NoNodeCall
    /\ Ran("NodeCallEnd", 0)
    /\ UNCHANGED <<Mtm, clockVars, MtmIsRecoverySession, MtmTx, pc, twophase, nConfigChanges,
                   vis, receiver, voteWait, XactIsoLevel, MtmStateLock, gc, sub, dl, cfg>>

\* The handlers of the membership take the state lock for the whole of their
\* step: they run when no process holds it.
NextNodeCall ==
    \/ DropNodeCall \/ RecoverNodeCall \/ ConnServe \/ BroadcastDone
    \/ DropNodeUnlock \/ NodeCallEnd
    \/ (MtmLockFree /\ ArbiterConnected)
    \/ (MtmLockFree /\ ReceiverStarted)
    \/ (MtmLockFree /\ StartRecovery)
    \/ (MtmLockFree /\ RecoveryCompleted)
    \/ (MtmLockFree /\ GetReplicationMode)

SpecNodeCall == InitMembers /\ [][NextNodeCall]_vars

\* The process u is inside a call that contacts other nodes.
InNetworkIo(u) == u = "admin" /\ nodeCall.pc = "exec"

\* C33: no process is in network I/O while it holds the state lock.
C33_NoNetworkIoUnderStateLock ==
    \A u \in LockUsers : InNetworkIo(u) => MtmStateLock[u] = "none"

\* ------------------------------------------- C35: mtm.drop_node returns
\* The broadcast goes on by itself: the backend that serves the connection
\* to this node runs as soon as it gets the state lock, the replies of the
\* peers arrive, and the caller goes on to MtmUnlock.
SpecNodeCallFair ==
    /\ SpecNodeCall
    /\ WF_vars(ConnServe) /\ WF_vars(BroadcastDone) /\ WF_vars(DropNodeUnlock)

\* C35: a call of mtm.drop_node for an enabled node, once it broadcasts,
\* returns.
C35_DropNodeReturns ==
    (nodeCall.fn = "drop" /\ nodeCall.pc = "exec") ~> (nodeCall.pc = "returned")

\* -------------------------------------- C34: the mode of the state lock
\* The coordinator in the wait loop of MtmPostPrepareTransaction: WaitLatch
\* has returned and it takes the state lock again, in shared mode.
VoteWake ==
    /\ \E p \in Procs :
         /\ pc[p] = "voting"
         /\ MtmStateLock[p] = "none"
         /\ \A u \in LockUsers : MtmStateLock[u] # "LW_EXCLUSIVE"
         /\ MtmStateLock' = MtmLock(p, "LW_SHARED")
         /\ Ran("MtmLock", XidOf(p))
    /\ UNCHANGED <<Mtm, clockVars, MtmIsRecoverySession, MtmTx, pc, twophase, nConfigChanges,
                   vis, receiver, voteWait, XactIsoLevel, nodeCall, gc, sub, dl, cfg>>

\* It finds the loop condition true: MtmUnlock, and the next WaitLatch.
VoteSleep ==
    /\ \E p \in Procs :
         /\ pc[p] = "voting"
         /\ MtmStateLock[p] = "LW_SHARED"
         /\ MtmVotingGoesOn(Mtm, MtmTx[p].xid, nConfigChanges[p], FALSE)
         /\ MtmStateLock' = MtmUnlock(p)
         /\ Ran("MtmUnlock", XidOf(p))
    /\ UNCHANGED <<Mtm, clockVars, MtmIsRecoverySession, MtmTx, pc, twophase, nConfigChanges,
                   vis, receiver, voteWait, XactIsoLevel, nodeCall, gc, sub, dl, cfg>>

\* It finds the loop condition false: the test after the loop, the abort of
\* the transaction when the voting has failed, and MtmUnlock.
DecideWoken ==
    /\ \E p \in Procs, expired \in BOOLEAN :
         /\ pc[p] = "voting"
         /\ MtmStateLock[p] = "LW_SHARED"
         /\ ~MtmVotingGoesOn(Mtm, MtmTx[p].xid, nConfigChanges[p], expired)
         /\ LET d == MtmPostPrepareResult(Mtm, MtmTx[p], nConfigChanges[p])
            IN Mtm' = d.M /\ Step(p, d.x, "finish")
         /\ MtmStateLock' = MtmUnlock(p)
         /\ Ran("MtmPostPrepareTransaction", XidOf(p))
    /\ UNCHANGED <<clockVars, MtmIsRecoverySession, twophase, nConfigChanges, voteWait, vis,
                   XactIsoLevel, receiver, nodeCall, gc, sub, dl, cfg>>

\* The coordinator and the handlers that end its wait; each of the others
\* holds the state lock in exclusive mode for the whole of its step.
NextLockMode ==
    \/ VoteWake \/ VoteSleep \/ DecideWoken
    \/ (MtmLockFree /\ B_Begin)
    \/ (MtmLockFree /\ B_Write)
    \/ (MtmLockFree /\ B_Commit)
    \/ (MtmLockFree /\ PrePrepare)
    \/ (MtmLockFree /\ PostPrepare)
    \/ (MtmLockFree /\ B_Finish)
    \/ (MtmLockFree /\ ArbiterReady)
    \/ (MtmLockFree /\ ArbiterAborted)
    \/ (MtmLockFree /\ OnNodeDisconnect)

SpecLockMode == InitTx /\ [][NextLockMode]_vars

\* The status or the CSN of a transaction state, or the counter of active
\* transactions, is written in this step.
TableWritten ==
    \/ Mtm'.nActiveTransactions # Mtm.nActiveTransactions
    \/ \E xid \in Xids : \/ Mtm'.xid2state[xid].status # Mtm.xid2state[xid].status
                         \/ Mtm'.xid2state[xid].csn # Mtm.xid2state[xid].csn

\* C34: the transaction states and the counter they guard are written only
\* by a process that holds the state lock in exclusive mode: no step writes
\* them while a process holds the lock in shared mode.
C34_TableWrittenUnderExclusiveLock ==
    [][TableWritten => \A u \in LockUsers : MtmStateLock[u] # "LW_SHARED"]_vars

\* ------------------------------------------------ C36: garbage collection
\* Microseconds in a second (USEC of pg_dtm.c, USECS_PER_SEC of the engine).
USEC == 1000000

\* multimaster.vacuum_delay and DtmVacuumDelay, in seconds.
MtmVacuumDelay == 1
DtmVacuumDelay == 2

\* The longest list of transactions a call is made with, and the CSNs its
\* records, the snapshots and the clock are drawn from.
MaxGcLen == 3
GcCsns == {1, USEC + 2, 2 * USEC + 3, 3 * USEC + 4}

\* The number of records at the head of list the scan passes: it stops at the
\* first record for which Old does not hold.
GcScan(list, Old(_)) ==
    LET young == {i \in 1..Len(list) : ~Old(list[i])}
    IN IF young = {} THEN Len(list)
       ELSE (CHOOSE i \in young : \A j \in young : i <= j) - 1

\* What a scan that passed k records does: the records before the last one
\* passed are removed from the hash, the last one becomes the head.
GcRemove(g, k, cutoff) ==
    [g EXCEPT !.removed = {g.list[i].xid : i \in 1..(IF k > 0 THEN k - 1 ELSE 0)},
              !.list = IF k > 0 THEN SubSeq(g.list, k, Len(g.list)) ELSE g.list,
              !.cutoff = cutoff, !.ran = TRUE]

\* The oldest snapshot MtmAdjustOldestXid settles on: that of the state ts of
\* xid or the one recorded for this node, whichever is later, lowered to the
\* least of the enabled nodes, less the vacuum delay.
RECURSIVE MtmOldestOfEnabled(_, _, _, _)
MtmOldestOfEnabled(oldest, disabled, i, acc) ==
    IF i > MtmNodes THEN acc
    ELSE MtmOldestOfEnabled(oldest, disabled, i + 1,
            IF i \notin disabled /\ oldest[i] < acc THEN oldest[i] ELSE acc)

MtmGcCutoff(g, ts) ==
    LET own == Max(g.oldest[MtmNodeId], ts.snapshot)
        oldest == [g.oldest EXCEPT ![MtmNodeId] = own]
        least == MtmOldestOfEnabled(oldest, g.disabled, 1, own)
    IN IF least > MtmVacuumDelay * USEC THEN least - MtmVacuumDelay * USEC ELSE 0

\* MtmAdjustOldestXid(xid): nothing is done when xid has no state.
MtmAdjustOldestXid(g) ==
    IF \E i \in 1..Len(g.list) : g.list[i].xid = g.xid
    THEN LET ts == g.list[CHOOSE i \in 1..Len(g.list) : g.list[i].xid = g.xid]
             cutoff == MtmGcCutoff(g, ts)
             Old(r) == r.csn < cutoff /\ r.xid < g.xid
         IN GcRemove(g, GcScan(g.list, Old), cutoff)
    ELSE [g EXCEPT !.ran = TRUE]

\* DtmAdjustOldestXid: the cutoff is the clock less the vacuum delay.
DtmAdjustOldestXid(g) ==
    LET cutoff == g.now - DtmVacuumDelay * USEC
        Old(r) == r.csn < cutoff
    IN GcRemove(g, GcScan(g.list, Old), cutoff)

\* The lists a call finds: the records are in the order of their insertion,
\* which is the order of their xids and of their CSNs.
GcStatuses == {"IN_PROGRESS", "UNKNOWN", "COMMITTED", "ABORTED"}

GcLists ==
    UNION {{l \in [1..n -> [xid : 1..MaxGcLen, csn : GcCsns, snapshot : {1},
                            status : GcStatuses]] :
              /\ \A i \in 1..n : l[i].xid = i
              /\ \A i \in 1..(n - 1) : l[i].csn <= l[i + 1].csn} : n \in 1..MaxGcLen}

\* A call of MtmAdjustOldestXid: xid is the oldest xmin of the engine, so the
\* transactions before it are over. And a call of DtmAdjustOldestXid at the
\* time now: a transaction is listed IN_PROGRESS from DtmLocalBeginPrepare on
\* with the CSN of that moment.
InitGc ==
    /\ sysTime = 0
    /\ Mtm = MtmInitialize(sysTime)
    /\ clk = [pc |-> "idle", arg |-> 0, shift0 |-> 0, lastRet |-> -1, prevMax |-> -1]
    /\ MtmIsRecoverySession = [n \in Others |-> FALSE]
    /\ last = [op |-> "MtmInitialize", node |-> 0]
    /\ MtmTx = [p \in Procs |-> NoTrans]
    /\ pc = [p \in Procs |-> "idle"]
    /\ twophase = [g \in Xids |-> "none"]
    /\ nConfigChanges = [p \in Procs |-> 0]
    /\ vis = NoCheck
    /\ receiver = [n \in Others |-> NoReceiver]
    /\ voteWait = [p \in Procs |-> NoWait]
    /\ XactIsoLevel = "XACT_REPEATABLE_READ"
    /\ MtmStateLock = [u \in LockUsers |-> "none"]
    /\ nodeCall = NoNodeCall
    /\ sub = NoSub
    /\ dl = NoDl
    /\ cfg = NoCfg
    /\ \E list \in GcLists :
         \/ \E xid \in 1..Len(list), disabled \in {{}, {MtmNodes}},
               oldest \in [Nodes -> {USEC + 2, 3 * USEC + 4}] :
              /\ \A i \in 1..Len(list) :
                   list[i].xid < xid => list[i].status \in {"COMMITTED", "ABORTED"}
              /\ gc = [kind |-> "mtm", list |-> list, xid |-> xid, oldest |-> oldest,
                       disabled |-> disabled, now |-> 0, removed |-> {}, cutoff |-> 0,
                       ran |-> FALSE]
         \/ \E now \in GcCsns :
              /\ \A i \in 1..Len(list) : list[i].csn <= now /\ list[i].status # "UNKNOWN"
              /\ gc = [kind |-> "dtm", list |-> list, xid |-> 0, oldest |-> <<>>,
                       disabled |-> {}, now |-> now, removed |-> {}, cutoff |-> 0,
                       ran |-> FALSE]

\* A backend begins a transaction when the GC period is over, or ends one
\* under pg_dtm: the garbage collection runs.
AdjustOldestXid ==
    /\ gc.kind = "mtm" /\ ~gc.ran
    /\ gc' = MtmAdjustOldestXid(gc)
    /\ Ran("MtmAdjustOldestXid", gc.xid)
    /\ UNCHANGED <<Mtm, clockVars, MtmIsRecoverySession, MtmTx, pc, twophase, nConfigChanges,
                   vis, receiver, voteWait, XactIsoLevel, MtmStateLock, nodeCall, sub, dl, cfg>>

DtmAdjust ==
    /\ gc.kind = "dtm" /\ ~gc.ran
    /\ gc' = DtmAdjustOldestXid(gc)
    /\ Ran("DtmAdjustOldestXid", 0)
    /\ UNCHANGED <<Mtm, clockVars, MtmIsRecoverySession, MtmTx, pc, twophase, nConfigChanges,
                   vis, receiver, voteWait, XactIsoLevel, MtmStateLock, nodeCall, sub, dl, cfg>>

NextGc == AdjustOldestXid \/ DtmAdjust

SpecGc == InitGc /\ [][NextGc]_vars

\* C36: a state that the garbage collection removes is COMMITTED or ABORTED
\* and its CSN is older than the cutoff; the records it leaves in the list
\* begin with the last one it passed.
C36_GcRemovesOnlyFinishedOldStates ==
    [][\A i \in 1..Len(gc.list) :
          gc.list[i].xid \in gc'.removed
             => /\ gc.list[i].status \in {"COMMITTED", "ABORTED"}
                /\ gc.list[i].csn < gc'.cutoff]_vars

\* ------------------------------------------------------ C37: sub-transactions
\* The most committed sub-transactions a transaction has, the CSNs the states
\* carry, and the xids: the transaction's own, its children's, those of the
\* transactions listed before and after it.
MaxSubxids == 2
SubCsns == 1..3
SubXid == 10
SubOlderXid == SubXid - 1
SubLaterXids == {20, 21}

\* xactGetCommittedChildren: the xids of the k committed children.
CommittedChildren(k) == [i \in 1..k |-> SubXid + i]

\* Where the state of xid stands in the list, 0 when it is not listed.
SubIndex(list, xid) ==
    IF \E i \in 1..Len(list) : list[i].xid = xid
    THEN CHOOSE i \in 1..Len(list) : list[i].xid = xid
    ELSE 0

\* MtmTransactionListAppend of the state ts of the transaction: a state that
\* is not enqueued goes to the tail and its nSubxids is reset.
MtmTransactionListAppend(S, ts) ==
    IF ~S.isEnqueued
    THEN [S EXCEPT !.isEnqueued = TRUE, !.nSubxids = 0, !.list = Append(@, ts)]
    ELSE S

\* MtmTransactionListInsertAfter: sts becomes the successor of list[i].
MtmTransactionListInsertAfter(list, i, sts) ==
    SubSeq(list, 1, i) \o <<sts>> \o SubSeq(list, i + 1, Len(list))

\* MtmAddSubtransactions(ts, subxids, nSubxids): a state with the status and
\* the CSN of ts for each of the first nSubxids of subxids, each put right
\* after ts.
RECURSIVE AddSubtransactionsFrom(_, _, _, _)
AddSubtransactionsFrom(list, subxids, nSubxids, i) ==
    IF i > nSubxids THEN list
    ELSE LET at == SubIndex(list, SubXid)
             sts == [xid |-> subxids[i], status |-> list[at].status, csn |-> list[at].csn]
         IN AddSubtransactionsFrom(MtmTransactionListInsertAfter(list, at, sts),
                                   subxids, nSubxids, i + 1)

MtmAddSubtransactions(S, subxids, nSubxids) ==
    [S EXCEPT !.nSubxids = nSubxids,
              !.list = AddSubtransactionsFrom(S.list, subxids, nSubxids, 1)]

\* MtmAdjustSubtransactions(ts): the nSubxids states that follow ts get its
\* status and CSN.
MtmAdjustSubtransactions(S) ==
    LET at == SubIndex(S.list, SubXid)
    IN [S EXCEPT !.list = [i \in 1..Len(S.list) |->
                             IF i > at /\ i <= at + S.nSubxids
                             THEN [S.list[i] EXCEPT !.status = S.list[at].status,
                                                    !.csn = S.list[at].csn]
                             ELSE S.list[i]]]

\* The part of MtmPrePrepareTransaction that deals with the list: the state
\* is created, nSubxids is set from xactGetCommittedChildren, the state is
\* appended and MtmAddSubtransactions is called with ts->nSubxids.
SubPrePrepareTransaction(S, csn) ==
    LET subxids == CommittedChildren(S.k)
        ts == [xid |-> SubXid, status |-> "IN_PROGRESS", csn |-> csn]
        S1 == [S EXCEPT !.nSubxids = S.k, !.pc = "prepared"]
        S2 == MtmTransactionListAppend(S1, ts)
    IN MtmAddSubtransactions(S2, subxids, S2.nSubxids)

\* The commit branch of MtmEndTransaction and MtmAbortTransaction, as far as
\* the list goes.
SubSetStatus(S, status, csn) ==
    LET at == SubIndex(S.list, SubXid)
        S1 == [S EXCEPT !.list[at].status = status,
                        !.list[at].csn = Max(S.list[at].csn, csn),
                        !.pc = "ended"]
    IN MtmAdjustSubtransactions(S1)

\* A backend has begun a transaction and committed k sub-transactions in it;
\* an older transaction may be listed.
InitSub ==
    /\ sysTime = 0
    /\ Mtm = MtmInitialize(sysTime)
    /\ clk = [pc |-> "idle", arg |-> 0, shift0 |-> 0, lastRet |-> -1, prevMax |-> -1]
    /\ MtmIsRecoverySession = [n \in Others |-> FALSE]
    /\ last = [op |-> "MtmInitialize", node |-> 0]
    /\ MtmTx = [p \in Procs |-> NoTrans]
    /\ pc = [p \in Procs |-> "idle"]
    /\ twophase = [g \in Xids |-> "none"]
    /\ nConfigChanges = [p \in Procs |-> 0]
    /\ vis = NoCheck
    /\ receiver = [n \in Others |-> NoReceiver]
    /\ voteWait = [p \in Procs |-> NoWait]
    /\ XactIsoLevel = "XACT_REPEATABLE_READ"
    /\ MtmStateLock = [u \in LockUsers |-> "none"]
    /\ nodeCall = NoNodeCall
    /\ gc = NoGc
    /\ dl = NoDl
    /\ cfg = NoCfg
    /\ \E k \in 0..MaxSubxids, older \in {"none", "COMMITTED", "ABORTED"} :
         sub = [pc |-> "begun", k |-> k, nSubxids |-> 0, isEnqueued |-> FALSE,
                list |-> IF older = "none" THEN <<>>
                         ELSE <<[xid |-> SubOlderXid, status |-> older, csn |-> 1]>>]

SubFrame ==
    UNCHANGED <<Mtm, clockVars, MtmIsRecoverySession, MtmTx, pc, twophase, nConfigChanges,
                vis, receiver, voteWait, XactIsoLevel, MtmStateLock, nodeCall, gc, dl, cfg>>

SubPrePrepare ==
    /\ sub.pc = "begun"
    /\ \E csn \in SubCsns : sub' = SubPrePrepareTransaction(sub, csn)
    /\ Ran("MtmPrePrepareTransaction", MtmNodeId)
    /\ SubFrame

\* Another transaction reaches its pre-prepare: its state goes to the tail.
SubLaterPrePrepare ==
    /\ sub.pc # "none"
    /\ \E xid \in SubLaterXids, csn \in SubCsns :
         /\ SubIndex(sub.list, xid) = 0
         /\ \A i \in 1..Len(sub.list) : sub.list[i].csn <= csn
         /\ sub' = [sub EXCEPT !.list = Append(@, [xid |-> xid, status |-> "IN_PROGRESS",
                                                   csn |-> csn])]
    /\ Ran("MtmTransactionListAppend", MtmNodeId)
    /\ SubFrame

SubCommit ==
    /\ sub.pc = "prepared"
    /\ \E csn \in SubCsns : sub' = SubSetStatus(sub, "COMMITTED", csn)
    /\ Ran("MtmEndTransaction", MtmNodeId)
    /\ SubFrame

SubAbort ==
    /\ sub.pc = "prepared"
    /\ sub' = SubSetStatus(sub, "ABORTED", 0)
    /\ Ran("MtmAbortTransaction", MtmNodeId)
    /\ SubFrame

NextSub == SubPrePrepare \/ SubLaterPrePrepare \/ SubCommit \/ SubAbort

SpecSub == InitSub /\ [][NextSub]_vars

\* C37: from the pre-prepare of a transaction with k committed
\* sub-transactions on, the k records that follow the parent's in the list
\* are those of its sub-transactions, and once the parent is COMMITTED or
\* ABORTED each of them has the parent's status and CSN.
C37_SubtransactionsFollowParent ==
    sub.pc \in {"prepared", "ended"} =>
        LET at == SubIndex(sub.list, SubXid)
        IN /\ at > 0
           /\ at + sub.k <= Len(sub.list)
           /\ {sub.list[at + j].xid : j \in 1..sub.k} = {SubXid + j : j \in 1..sub.k}
           /\ sub.list[at].status \in {"COMMITTED", "ABORTED"} =>
                 \A j \in 1..sub.k : /\ sub.list[at + j].status = sub.list[at].status
                                      /\ sub.list[at + j].csn = sub.list[at].csn

\* ------------------------------------------------- C38: global deadlock detector
\* deadlock_timeout of the engine, in milliseconds.
DeadlockTimeout == 1000

\* The transactions of the graphs: that of the waiting backend, one of each
\* peer. An edge <<a, b>> says that a waits for a lock b holds.
DlSelf == MtmNodeId
DlGtids == 1..MtmNodes
DlGraphs == {{}} \cup {{<<a, DlSelf>>} : a \in DlGtids \ {DlSelf}}

\* MtmGraphFindLoop(graph, gtid): a chain of waits leads from gtid back to it.
RECURSIVE DlReach(_, _, _)
DlReach(graph, from, n) ==
    LET next == {e[2] : e \in {e \in graph : e[1] \in from}}
    IN IF n = 0 THEN {} ELSE next \cup DlReach(graph, next, n - 1)

MtmGraphFindLoop(graph, gtid) == gtid \in DlReach(graph, {gtid}, Cardinality(DlGtids))

\* The graphs MtmDetectGlobalDeadLock adds up: its own and the one of each
\* enabled peer; RaftableGet returns NULL for a key that is not stored.
DlPeers(D) == {n \in Others : n <= D.nAllNodes /\ n \notin D.disabledNodeMask}

DlUnion(D) == D.own \cup UNION {D.peer[n].graph : n \in {n \in DlPeers(D) : D.peer[n].stored}}

\* MtmDetectGlobalDeadLock(proc) for a backend with an xid.
MtmDetectGlobalDeadLock(D) ==
    IF \E n \in DlPeers(D) : ~D.peer[n].stored THEN TRUE
    ELSE IF MtmGraphFindLoop(DlUnion(D), DlSelf) THEN TRUE
    ELSE D.lastPeekTime # 0 /\ D.now - D.lastPeekTime >= MSEC_TO_USEC(DeadlockTimeout)

\* A backend waits for a lock that the transaction of a peer holds; no peer
\* has stored its graph yet.
InitDl ==
    /\ sysTime = 0
    /\ Mtm = MtmInitialize(sysTime)
    /\ clk = [pc |-> "idle", arg |-> 0, shift0 |-> 0, lastRet |-> -1, prevMax |-> -1]
    /\ MtmIsRecoverySession = [n \in Others |-> FALSE]
    /\ last = [op |-> "MtmInitialize", node |-> 0]
    /\ MtmTx = [p \in Procs |-> NoTrans]
    /\ pc = [p \in Procs |-> "idle"]
    /\ twophase = [g \in Xids |-> "none"]
    /\ nConfigChanges = [p \in Procs |-> 0]
    /\ vis = NoCheck
    /\ receiver = [n \in Others |-> NoReceiver]
    /\ voteWait = [p \in Procs |-> NoWait]
    /\ XactIsoLevel = "XACT_REPEATABLE_READ"
    /\ MtmStateLock = [u \in LockUsers |-> "none"]
    /\ nodeCall = NoNodeCall
    /\ gc = NoGc
    /\ sub = NoSub
    /\ cfg = NoCfg
    /\ \E holder \in DlGtids \ {DlSelf}, disabled \in SUBSET Others,
          lastPeekTime \in {0, 1}, late \in BOOLEAN :
         dl = [pc |-> "waiting", own |-> {<<DlSelf, holder>>},
               peer |-> [n \in Others |-> [stored |-> FALSE, graph |-> {}]], nAllNodes |-> MtmNodes,
               disabledNodeMask |-> disabled, lastPeekTime |-> lastPeekTime,
               now |-> IF late THEN 1 + MSEC_TO_USEC(DeadlockTimeout) ELSE 2,
               answer |-> FALSE]

DlFrame ==
    UNCHANGED <<Mtm, clockVars, MtmIsRecoverySession, MtmTx, pc, twophase, nConfigChanges,
                vis, receiver, voteWait, XactIsoLevel, MtmStateLock, nodeCall, gc, sub, cfg>>

\* A backend of peer n runs its own detector: the graph of n is stored under
\* lock-graph-n.
PeerStoresGraph ==
    /\ dl.pc = "waiting"
    /\ \E n \in Others, graph \in DlGraphs :
         /\ \A e \in graph : e[1] = n
         /\ dl' = [dl EXCEPT !.peer[n] = [stored |-> TRUE, graph |-> graph]]
         /\ Ran("RaftableSet", n)
    /\ DlFrame

\* The deadlock timeout of the waiting backend expires.
DetectGlobalDeadLock ==
    /\ dl.pc = "waiting"
    /\ dl' = [dl EXCEPT !.pc = "done", !.answer = MtmDetectGlobalDeadLock(dl)]
    /\ Ran("MtmDetectGlobalDeadLock", MtmNodeId)
    /\ DlFrame

NextDl == PeerStoresGraph \/ DetectGlobalDeadLock

SpecDl == InitDl /\ [][NextDl]_vars

\* C38: the detector answers that there is a deadlock only when the graphs of
\* this node and of the enabled peers together have a cycle through the
\* waiting transaction, or when the apply workers have made no progress for
\* the deadlock timeout.
C38_DeadlockOnlyOnCycleOrStalledWorkers ==
    (dl.pc = "done" /\ dl.answer) =>
        \/ MtmGraphFindLoop(DlUnion(dl), DlSelf)
        \/ dl.lastPeekTime # 0 /\ dl.now - dl.lastPeekTime >= MSEC_TO_USEC(DeadlockTimeout)

\* ------------------------------------------- C39: the range of node ids
\* C39: mtm.drop_node and mtm.recover_node raise the out-of-range error only
\* for a node id outside 1..nAllNodes, whatever nodes are disabled.
C39_OutOfRangeOnlyOutsideCluster ==
    nodeCall.err = "out of range" => nodeCall.nodeId \notin 1..Mtm.nAllNodes

\* ------------------------------------------------ C40: multimaster.max_nodes
\* The most nodes a cluster may have (multimaster.h).
MAX_NODES == 64

\* The settings a postmaster is started with: multimaster.max_nodes, the
\* number of connection strings in multimaster.conn_strings,
\* multimaster.node_id, multimaster.workers and the engine's own settings.
CfgSettings ==
    [MtmMaxNodes : 0..MtmNodes, nConnStrs : 1..MtmNodes, MtmNodeId : 1..MtmNodes,
     MtmWorkers : {8},
     DefaultXactIsoLevel : {"XACT_REPEATABLE_READ", "XACT_READ_COMMITTED"},
     max_prepared_xacts : {0, 10}, max_worker_processes : {8, 100},
     wal_level : {"WAL_LEVEL_LOGICAL"}, max_wal_senders : {10},
     max_replication_slots : {10}]

\* ConfigIsSane().
ConfigIsSane(c) ==
    /\ c.DefaultXactIsoLevel = "XACT_REPEATABLE_READ"
    /\ ~(c.MtmMaxNodes < 1)
    /\ ~(c.max_prepared_xacts < 1)
    /\ ~(c.max_worker_processes < 2 * c.MtmMaxNodes + c.MtmWorkers + 1)
    /\ c.wal_level = "WAL_LEVEL_LOGICAL"
    /\ ~(c.max_wal_senders < c.MtmMaxNodes)
    /\ ~(c.max_replication_slots < c.MtmMaxNodes)

\* MtmSplitConnStrs(): the checks on the number i of connection strings, and
\* MtmMaxNodes and MtmNodes at its end; "error" stands for elog(ERROR).
MtmSplitConnStrs(c) ==
    LET i == c.nConnStrs
    IN IF i > MAX_NODES \/ c.MtmNodeId > i \/ i < 2 THEN [pc |-> "error", MtmMaxNodes |-> c.MtmMaxNodes, MtmNodes |-> 0]
       ELSE IF c.MtmMaxNodes = 0 THEN [pc |-> "started", MtmMaxNodes |-> i, MtmNodes |-> i]
       ELSE IF c.MtmMaxNodes < i THEN [pc |-> "error", MtmMaxNodes |-> c.MtmMaxNodes, MtmNodes |-> 0]
       ELSE [pc |-> "started", MtmMaxNodes |-> c.MtmMaxNodes, MtmNodes |-> i]

\* _PG_init(): the settings are defined, ConfigIsSane() is asked, then the
\* connection strings are split.
PG_init(c) ==
    IF ~ConfigIsSane(c) THEN [pc |-> "error", MtmMaxNodes |-> c.MtmMaxNodes, MtmNodes |-> 0]
    ELSE MtmSplitConnStrs(c)

InitCfg ==
    /\ sysTime = 0
    /\ Mtm = MtmInitialize(sysTime)
    /\ clk = [pc |-> "idle", arg |-> 0, shift0 |-> 0, lastRet |-> -1, prevMax |-> -1]
    /\ MtmIsRecoverySession = [n \in Others |-> FALSE]
    /\ last = [op |-> "MtmInitialize", node |-> 0]
    /\ MtmTx = [p \in Procs |-> NoTrans]
    /\ pc = [p \in Procs |-> "idle"]
    /\ twophase = [g \in Xids |-> "none"]
    /\ nConfigChanges = [p \in Procs |-> 0]
    /\ vis = NoCheck
    /\ receiver = [n \in Others |-> NoReceiver]
    /\ voteWait = [p \in Procs |-> NoWait]
    /\ XactIsoLevel = "XACT_REPEATABLE_READ"
    /\ MtmStateLock = [u \in LockUsers |-> "none"]
    /\ nodeCall = NoNodeCall
    /\ gc = NoGc
    /\ sub = NoSub
    /\ dl = NoDl
    /\ \E c \in CfgSettings :
         cfg = [pc |-> "load", settings |-> c, MtmMaxNodes |-> c.MtmMaxNodes, MtmNodes |-> 0]

\* The postmaster loads the library.
LoadLibrary ==
    /\ cfg.pc = "load"
    /\ LET r == PG_init(cfg.settings)
       IN cfg' = [cfg EXCEPT !.pc = r.pc, !.MtmMaxNodes = r.MtmMaxNodes, !.MtmNodes = r.MtmNodes]
    /\ Ran("_PG_init", cfg.settings.MtmNodeId)
    /\ UNCHANGED <<Mtm, clockVars, MtmIsRecoverySession, MtmTx, pc, twophase, nConfigChanges,
                   vis, receiver, voteWait, XactIsoLevel, MtmStateLock, nodeCall, gc, sub, dl>>

NextCfg == LoadLibrary

SpecCfg == InitCfg /\ [][NextCfg]_vars

\* The settings but multimaster.max_nodes allow a cluster of as many nodes
\* as there are connection strings.
SaneButMaxNodes(c) ==
    /\ ConfigIsSane([c EXCEPT !.MtmMaxNodes = c.nConnStrs])
    /\ c.nConnStrs >= 2 /\ c.nConnStrs <= MAX_NODES /\ c.MtmNodeId <= c.nConnStrs

\* C40: with multimaster.max_nodes = 0 and the other settings in order the
\* library starts and MtmMaxNodes is the number of connection strings.
C40_DefaultMaxNodesStarts ==
    (cfg.pc \in {"started", "error"} /\ cfg.settings.MtmMaxNodes = 0
        /\ SaneButMaxNodes(cfg.settings))
      => (cfg.pc = "started" /\ cfg.MtmMaxNodes = cfg.settings.nConnStrs)
====
